---------------------------- MODULE Spec2Model ----------------------------
(***************************************************************************)
(* Model of the velcursor trail renderer (cursorTrail.js): the trail       *)
(* sample store, the push pipeline, pruning, the adaptive quality          *)
(* controller and the self-scheduling redraw loop.                         *)
(*                                                                         *)
(* Numbers.  JavaScript doubles are modelled in fixed point:               *)
(*   lengths      in 1/100 px            (PX units per pixel)              *)
(*   areas        in 1/10000 px^2                                          *)
(*   wall time    in milliseconds                                          *)
(*   quality      in 1/10000             (QS units per 1.0)                *)
(* Divisions round to the nearest unit, Math.hypot is the integer square   *)
(* root.  Thresholds of the source are kept with their source value        *)
(* expressed in these units.                                               *)
(***************************************************************************)
EXTENDS Integers, Sequences, FiniteSets, TLC

\* ------------------------------------------------------------------------
\* Number representation
\* ------------------------------------------------------------------------
PX == 100
QS == 10000

\* The value of a one-element set: Only({ e(x) : x \in {d} }) is e with x
\* naming the value of d, which is evaluated once.
Only(S) == CHOOSE v \in S : TRUE

Abs(v) == IF v < 0 THEN -v ELSE v
Min(a, b) == IF a < b THEN a ELSE b
Max(a, b) == IF a > b THEN a ELSE b
Sign(v) == IF v > 0 THEN 1 ELSE IF v < 0 THEN -1 ELSE 0

\* n / d rounded to the nearest unit (d > 0)
IDiv(n, d) ==
    Only({ IF a >= 0 THEN (2 * a + b) \div (2 * b) ELSE -((2 * (-a) + b) \div (2 * b)) :
           a \in {n}, b \in {d} })
\* Math.ceil(n / d) for d > 0
CeilDiv(n, d) ==
    Only({ IF a >= 0 THEN (a + b - 1) \div b ELSE -((-a) \div b) : a \in {n}, b \in {d} })

RECURSIVE SqrtIter(_, _)
SqrtIter(n, x) ==
    Only({ IF y >= x THEN x ELSE SqrtIter(n, y) : y \in {(x + n \div x) \div 2} })
\* floor(sqrt(n))
ISqrt(n) == Only({ IF m <= 0 THEN 0 ELSE SqrtIter(m, m) : m \in {n} })

clamp(v, lo, hi) == Only({ Min(Max(w, lo), hi) : w \in {v} })
hypot(dx, dy) == Only({ ISqrt(ax * ax + ay * ay) : ax \in {dx}, ay \in {dy} })

\* ------------------------------------------------------------------------
\* SECTION 1: Configuration (CFG), in model units
\* ------------------------------------------------------------------------
ttlMs == 256                    \* CFG.trail.ttlMs
maxRects == 30                  \* CFG.trail.maxRects
minMovePx == 8                  \* CFG.trail.minMovePx = 0.08 px
cornerInterpEpsilonPx == 2      \* CFG.trail.cornerInterpEpsilonPx = 0.02 px
interpStepPx == 2               \* CFG.trail.interpStepPx = 0.02 px
adaptiveInterpStepPx == 32      \* CFG.trail.adaptiveInterpStepPx = 0.32 px
maxInterpPerPush == 4           \* CFG.trail.maxInterpPerPush
twistGuardEnabled == TRUE       \* CFG.trail.twistGuardEnabled
temporalSmoothFactor == 3200    \* CFG.trail.temporalSmoothFactor = 0.32 (in 1/QS)
smoothReleaseDistancePx == 6400 \* CFG.trail.smoothReleaseDistancePx = 64 px
cornerStepClampPx == 800        \* CFG.trail.cornerStepClampPx = 8 px
cornerStepSpeedScale == 4       \* CFG.trail.cornerStepSpeedScale

\* ------------------------------------------------------------------------
\* SECTION 9: Polygon helpers
\* ------------------------------------------------------------------------
Pt(px, py) == [x |-> px, y |-> py]

lerp(a, b, num, den) == a + IDiv((b - a) * num, den)
lerpPoint(p0, p1, num, den) == Pt(lerp(p0.x, p1.x, num, den), lerp(p0.y, p1.y, num, den))
pointDist(a, b) == hypot(a.x - b.x, a.y - b.y)

\* pts[(i + offset) % n], with the sequence indexed from 1
rotatePolygon(poly, offset) ==
    Only({ [i \in 1..Len(pts) |-> pts[((i - 1 + k) % Len(pts)) + 1]] :
           pts \in {poly}, k \in {offset} })

reversePolygon(poly) ==
    Only({ [i \in 1..Len(pts) |-> pts[Len(pts) + 1 - i]] : pts \in {poly} })

RECURSIVE SumX(_, _)
SumX(pts, i) == IF i = 0 THEN 0 ELSE pts[i].x + SumX(pts, i - 1)
RECURSIVE SumY(_, _)
SumY(pts, i) == IF i = 0 THEN 0 ELSE pts[i].y + SumY(pts, i - 1)

polygonCenter(poly) ==
    Only({ Pt(IDiv(SumX(pts, Len(pts)), Max(1, Len(pts))),
              IDiv(SumY(pts, Len(pts)), Max(1, Len(pts)))) : pts \in {poly} })

RECURSIVE AreaSum(_, _)
AreaSum(pts, i) ==
    IF i = 0 THEN 0
    ELSE (pts[i].x * pts[(i % Len(pts)) + 1].y - pts[(i % Len(pts)) + 1].x * pts[i].y)
         + AreaSum(pts, i - 1)
\* twice the signed area (only its sign is used)
polygonSignedArea(poly) ==
    Only({ IF Len(pts) < 3 THEN 0 ELSE AreaSum(pts, Len(pts)) : pts \in {poly} })

\* Order of Math.atan2(dy, dx) in (-pi, pi]: zone 1 = (-pi, 0), 2 = {0},
\* 3 = (0, pi), 4 = {pi}; inside zone 1 or 3 the cross product decides.
AngleZone(dx, dy) ==
    IF dy < 0 THEN 1 ELSE IF dy > 0 THEN 3 ELSE IF dx >= 0 THEN 2 ELSE 4
AngleCmp(ux, uy, vx, vy) ==
    IF AngleZone(ux, uy) # AngleZone(vx, vy)
    THEN Sign(AngleZone(ux, uy) - AngleZone(vx, vy))
    ELSE IF AngleZone(ux, uy) = 2 \/ AngleZone(ux, uy) = 4 THEN 0
    ELSE -Sign(ux * vy - uy * vx)

\* the comparator of sortPolygonByAngle: a.a - b.a || a.r2 - b.r2 || y || x
AngleSortCmp(c, p, q) ==
    Only({ IF ca # 0 THEN ca
           ELSE IF cr # 0 THEN cr
           ELSE IF p.y # q.y THEN Sign(p.y - q.y)
           ELSE Sign(p.x - q.x) :
           ca \in {AngleCmp(p.x - c.x, p.y - c.y, q.x - c.x, q.y - c.y)},
           cr \in {Sign(((p.x - c.x) * (p.x - c.x) + (p.y - c.y) * (p.y - c.y))
                            - ((q.x - c.x) * (q.x - c.x) + (q.y - c.y) * (q.y - c.y)))} })

\* Array.prototype.sort is stable: pts[j] comes before pts[i] when it
\* compares lower, or equal with j < i
SortsBefore(c, pts, j, i) ==
    \E r \in {AngleSortCmp(c, pts[j], pts[i])} : r < 0 \/ (r = 0 /\ j < i)
SortRank(c, pts, i) == 1 + Cardinality({ j \in 1..Len(pts) : SortsBefore(c, pts, j, i) })
SortByAngleAround(c, pts) ==
    Only({ [k \in 1..Len(pts) |-> pts[CHOOSE i \in 1..Len(pts) : rank[i] = k]] :
           rank \in {[i \in 1..Len(pts) |-> SortRank(c, pts, i)]} })

\* mutant: the angles are taken around the first point, not the centre
sortPolygonAroundFirst(poly) ==
    Only({ IF Len(pts) < 3 THEN pts ELSE SortByAngleAround(pts[1], pts) : pts \in {poly} })

sortPolygonByAngle(poly) ==
    Only({ IF Len(pts) < 3 THEN pts
           ELSE Only({ SortByAngleAround(c, pts) : c \in {polygonCenter(pts)} }) :
           pts \in {poly} })

RECURSIVE TopLeftIdx(_, _, _)
TopLeftIdx(pts, i, best) ==
    IF i > Len(pts) THEN best
    ELSE IF pts[i].y < pts[best].y \/ (pts[i].y = pts[best].y /\ pts[i].x < pts[best].x)
         THEN TopLeftIdx(pts, i + 1, i)
         ELSE TopLeftIdx(pts, i + 1, best)

rotateToTopLeftStart(poly) ==
    Only({ IF Len(pts) = 0 THEN <<>> ELSE rotatePolygon(pts, TopLeftIdx(pts, 2, 1) - 1) :
           pts \in {poly} })

orient2(a, b, c) == (b.x - a.x) * (c.y - a.y) - (b.y - a.y) * (c.x - a.x)

\* eps is given in 1e-6 px (the source default 1e-6 is eps = 1); on the
\* integer grid a comparison against eps px^2 or eps px is a comparison
\* against its floor in model units.
EpsArea(eps) == (((eps * PX) \div 10000) * PX) \div 100
EpsLen(eps) == (eps * PX) \div 1000000

onSegment(a, b, p, eps) ==
    IF Abs(orient2(a, b, p)) > EpsArea(eps) THEN FALSE
    ELSE /\ p.x >= Min(a.x, b.x) - EpsLen(eps)
         /\ p.x <= Max(a.x, b.x) + EpsLen(eps)
         /\ p.y >= Min(a.y, b.y) - EpsLen(eps)
         /\ p.y <= Max(a.y, b.y) + EpsLen(eps)

segmentsIntersect(a, b, c, d, eps) ==
    \E o1 \in {orient2(a, b, c)}, o2 \in {orient2(a, b, d)},
       o3 \in {orient2(c, d, a)}, o4 \in {orient2(c, d, b)}, e \in {EpsArea(eps)} :
        \/ /\ (o1 > e /\ o2 < -e) \/ (o1 < -e /\ o2 > e)
           /\ (o3 > e /\ o4 < -e) \/ (o3 < -e /\ o4 > e)
        \/ Abs(o1) <= e /\ onSegment(a, b, c, eps)
        \/ Abs(o2) <= e /\ onSegment(a, b, d, eps)
        \/ Abs(o3) <= e /\ onSegment(c, d, a, eps)
        \/ Abs(o4) <= e /\ onSegment(c, d, b, eps)

\* edges are numbered 1..n, edge i joins pts[i] and pts[(i % n) + 1]
isSelfIntersectingPolygon(poly) ==
    \E pts \in {poly} :
        /\ Len(pts) >= 4
        /\ \E i \in 1..Len(pts) : \E j \in (i + 1)..Len(pts) :
              /\ ~((i % Len(pts)) + 1 = j \/ (j % Len(pts)) + 1 = i)
              /\ segmentsIntersect(pts[i], pts[(i % Len(pts)) + 1],
                                   pts[j], pts[(j % Len(pts)) + 1], 1)

\* mutant: validity without the self-intersection test
isValidLengthOnly(poly) == Len(poly) >= 3

isValidTrailPolygon(poly) ==
    \E pts \in {poly} : Len(pts) >= 3 /\ ~isSelfIntersectingPolygon(pts)

lerpPolygon(from, to, num, den) ==
    Only({ [i \in 1..Min(Len(p0), Len(p1)) |-> lerpPoint(p0[i], p1[i], n, den)] :
           p0 \in {from}, p1 \in {to}, n \in {num} })

RECURSIVE ScoreSum(_, _, _)
ScoreSum(cand, ref, i) ==
    IF i = 0 THEN 0 ELSE pointDist(cand[i], ref[i]) + ScoreSum(cand, ref, i - 1)

\* the candidates of matchPolygonToReference: every rotation of every base
\* polygon, bases in order, rotations 0..n-1 within a base
MatchCandidates(bases, n) ==
    [k \in 1..(Len(bases) * n) |-> rotatePolygon(bases[((k - 1) \div n) + 1], (k - 1) % n)]

\* the first candidate of the lowest score (score < bestScore replaces)
BestCandidate(cands, ref, n) ==
    Only({ cands[CHOOSE k \in DOMAIN score :
                    \A m \in DOMAIN score :
                        score[k] <= score[m] /\ (m < k => score[m] > score[k])] :
           score \in {[k \in DOMAIN cands |-> ScoreSum(cands[k], ref, n)]} })

\* the ordered polygon and its reverse, filtered by the reference's winding
\* when the reference has one and the filter leaves something
OrientedBases(ordered, refSign) ==
    Only({ Only({ IF refSign # 0 /\ Len(filtered) > 0 THEN filtered ELSE both :
                  filtered \in {SelectSeq(both, LAMBDA b : Sign(polygonSignedArea(b)) = refSign)} }) :
           both \in {<<ordered, reversePolygon(ordered)>>} })

matchPolygonToReference(poly, refPoly) ==
    Only({ IF Min(Len(pts), Len(refPts)) < 3 THEN pts
           ELSE Only({ Only({ BestCandidate(cands, ref, n) :
                              cands \in {MatchCandidates(
                                  OrientedBases(sortPolygonByAngle(SubSeq(pts, 1, n)),
                                                Sign(polygonSignedArea(ref))), n)} }) :
                       n \in {Min(Len(pts), Len(refPts))},
                       ref \in {SubSeq(refPts, 1, Min(Len(pts), Len(refPts)))} }) :
           pts \in {poly}, refPts \in {refPoly} })

\* refPoly = <<>> stands for null
canonicalizePolygon(poly, refPoly) ==
    Only({ IF Len(pts) < 3 THEN pts
           ELSE IF refPts # <<>> /\ Len(refPts) = Len(pts)
                THEN matchPolygonToReference(sortPolygonByAngle(pts), refPts)
                ELSE rotateToTopLeftStart(sortPolygonByAngle(pts)) :
           pts \in {poly}, refPts \in {refPoly} })

clampPointStep(from, to, maxStep) ==
    IF ~(maxStep > 0) THEN to
    ELSE Only({ IF d <= maxStep \/ d = 0 THEN to
                ELSE Pt(from.x + IDiv((to.x - from.x) * maxStep, d),
                        from.y + IDiv((to.y - from.y) * maxStep, d)) :
                d \in {hypot(to.x - from.x, to.y - from.y)} })

RECURSIVE MaxDeltaUpTo(_, _, _)
MaxDeltaUpTo(prevPts, currPts, i) ==
    IF i = 0 THEN 0
    ELSE Only({ Max(m, d) : m \in {MaxDeltaUpTo(prevPts, currPts, i - 1)},
                            d \in {pointDist(prevPts[i], currPts[i])} })
maxCornerDelta(prevPoly, currPoly) ==
    Only({ MaxDeltaUpTo(prevPts, currPts, Min(Len(prevPts), Len(currPts))) :
           prevPts \in {prevPoly}, currPts \in {currPoly} })

avgCornerDelta(prevPoly, currPoly) ==
    Only({ IF Min(Len(prevPts), Len(currPts)) = 0 THEN 0
           ELSE IDiv(ScoreSum(prevPts, currPts, Min(Len(prevPts), Len(currPts))),
                     Min(Len(prevPts), Len(currPts))) :
           prevPts \in {prevPoly}, currPts \in {currPoly} })

RECURSIVE PerimeterUpTo(_, _)
PerimeterUpTo(pts, i) ==
    IF i = 0 THEN 0
    ELSE pointDist(pts[i], pts[(i % Len(pts)) + 1]) + PerimeterUpTo(pts, i - 1)
perimeter(poly) ==
    Only({ IF Len(pts) < 2 THEN 0 ELSE PerimeterUpTo(pts, Len(pts)) : pts \in {poly} })

\* A target point is [some |-> BOOLEAN, x, y]; some = FALSE stands for null.
NoTarget == [some |-> FALSE, x |-> 0, y |-> 0]
Target(px, py) == [some |-> TRUE, x |-> px, y |-> py]

Dist2(p, q) == (p.x - q.x) * (p.x - q.x) + (p.y - q.y) * (p.y - q.y)

RECURSIVE NearestIdx(_, _, _, _)
NearestIdx(pts, tp, i, best) ==
    IF i > Len(pts) THEN best
    ELSE IF Dist2(pts[i], tp) < Dist2(pts[best], tp)
         THEN NearestIdx(pts, tp, i + 1, i)
         ELSE NearestIdx(pts, tp, i + 1, best)

\* the candidate that makes the edge to the previous vertex horizontal and
\* the edge to the next vertex vertical (prevHorizontal), or the converse;
\* the two assignments are made in this order
LeadCandidate(pts, leadIdx, prevIdx, nextIdx, prevHorizontal) ==
    IF prevHorizontal
    THEN [[pts EXCEPT ![prevIdx] = Pt(pts[prevIdx].x, pts[leadIdx].y)]
                   EXCEPT ![nextIdx] = Pt(pts[leadIdx].x, pts[nextIdx].y)]
    ELSE [[pts EXCEPT ![prevIdx] = Pt(pts[leadIdx].x, pts[prevIdx].y)]
                   EXCEPT ![nextIdx] = Pt(pts[nextIdx].x, pts[leadIdx].y)]

LeadScore(cand, pts, prevIdx, nextIdx) ==
    pointDist(cand[prevIdx], pts[prevIdx]) + pointDist(cand[nextIdx], pts[nextIdx])

\* the first valid of the two candidates, the lower score first (A on a tie)
LeadChoice(pts, candA, candB, scoreA, scoreB) ==
    Only({ IF isValidTrailPolygon(IF preferA THEN candA ELSE candB)
           THEN IF preferA THEN candA ELSE candB
           ELSE IF isValidTrailPolygon(IF preferA THEN candB ELSE candA)
           THEN IF preferA THEN candB ELSE candA
           ELSE pts :
           preferA \in {scoreA <= scoreB} })

LeadBetween(pts, leadIdx, prevIdx, nextIdx) ==
    Only({ LeadChoice(pts, candA, candB, LeadScore(candA, pts, prevIdx, nextIdx),
                                         LeadScore(candB, pts, prevIdx, nextIdx)) :
           candA \in {LeadCandidate(pts, leadIdx, prevIdx, nextIdx, TRUE)},
           candB \in {LeadCandidate(pts, leadIdx, prevIdx, nextIdx, FALSE)} })

enforceLeadingAxisCorner(poly, targetPoint) ==
    Only({ IF Len(pts) < 4 \/ ~targetPoint.some THEN pts
           ELSE Only({ LeadBetween(pts, leadIdx,
                                   ((leadIdx - 2 + Len(pts)) % Len(pts)) + 1,
                                   (leadIdx % Len(pts)) + 1) :
                       leadIdx \in {NearestIdx(pts, targetPoint, 2, 1)} }) :
           pts \in {poly} })

\* ------------------------------------------------------------------------
\* State
\* ------------------------------------------------------------------------
VARIABLES
    trail,          \* const trail = []        sequence of samples, oldest first
    lastPushed,     \* let lastPushed = null   NullSample or the reference sample
    wall,           \* Date.now(), ms
    calls,          \* number of pushTrailPolygon calls made so far
    op,             \* the last store operation and what it observed (history)
    loop,           \* the closure of installTrailInDom: cursor, bounce, perf*, ...
    perfEnabled,    \* CFG.performance.enabled, a setting (true as shipped)
    windowFlag,     \* window.__neovide_cursor_active__
    trailActive,    \* let trailActive (the extension's flag)
    canvasParent,   \* canvas.parentElement: "body", "host" or "none"
    styleAttached,  \* the caret-layer style tag is in the document
    rafPending,     \* callbacks scheduled by requestAnimationFrame, not yet run
    osc,            \* an UnderDampedScalar stepped on its own, with its history
    hex,            \* drawStackedHexTrail: the frame being drawn, cell by cell
    inert,          \* the InertiaCursorController, the editor it moves, and history
    canon,          \* a polygon, a reference, and what canonicalizePolygon made of them
    snap,           \* a Corner updated with hard-snap switched on, with its history
    drawn,          \* what the last call of draw() set up and filled
    frame,          \* what the last execution of rafLoop did (history)
    hist            \* counters and marks over the behaviour (history)

\* Trail sample shape: { t, cx, cy, pts }
Sample(st, c, p) == [t |-> st, cx |-> c.x, cy |-> c.y, pts |-> p]
NullSample == [t |-> -1, cx |-> 0, cy |-> 0, pts |-> <<>>]

\* ------------------------------------------------------------------------
\* SECTION 9: pushTrailPolygon / pruneTrail
\* ------------------------------------------------------------------------
\* mutant: the cap keeps the oldest samples instead of the newest
CapTrailKeepOldest(tr) ==
    IF Len(tr) > maxRects THEN SubSeq(tr, 1, maxRects) ELSE tr

\* trail.splice(0, trail.length - CFG.trail.maxRects) when over the cap
CapTrail(tr) ==
    IF Len(tr) > maxRects THEN SubSeq(tr, Len(tr) - maxRects + 1, Len(tr)) ELSE tr

\* one pass of the interpolation loop: the polygon of entry i of segments
InterpEntryPts(i, segments, lastPts, pts, targetPoint, prevEntryPts) ==
    Only({ Only({ IF targetPoint.some THEN enforceLeadingAxisCorner(e1, targetPoint) ELSE e1 :
                  e1 \in {IF twistGuardEnabled /\ Len(prevEntryPts) = Len(e0)
                          THEN canonicalizePolygon(e0, prevEntryPts) ELSE e0} }) :
           e0 \in {lerpPolygon(lastPts, pts, i, segments)} })

\* the interpolation loop, i = 1..segments; returns the entries it appends
RECURSIVE InterpEntries(_, _, _, _, _, _, _)
InterpEntries(i, segments, lastPts, pts, targetPoint, stampMs, prevEntryPts) ==
    IF i > segments THEN <<>>
    ELSE Only({ IF ~isValidTrailPolygon(entryPts)
                THEN InterpEntries(i + 1, segments, lastPts, pts, targetPoint, stampMs, prevEntryPts)
                ELSE <<Sample(stampMs, polygonCenter(entryPts), entryPts)>> \o
                     InterpEntries(i + 1, segments, lastPts, pts, targetPoint, stampMs, entryPts) :
                entryPts \in {InterpEntryPts(i, segments, lastPts, pts, targetPoint, prevEntryPts)} })

\* Math.hypot(center.x - lastPushed.cx, center.y - lastPushed.cy)
CenterDistTo(lp, pts) ==
    Only({ hypot(center.x - lp.cx, center.y - lp.cy) : center \in {polygonCenter(pts)} })

\* interpMetric = max(centerDist, cornerMax, cornerAvg, shapeDelta)
InterpMetric(lp, pts) ==
    Only({ Max(Max(centerDist, cornerMax), Max(cornerAvg, shapeDelta)) :
           centerDist \in {CenterDistTo(lp, pts)},
           cornerMax \in {maxCornerDelta(lp.pts, pts)},
           cornerAvg \in {avgCornerDelta(lp.pts, pts)},
           shapeDelta \in {IDiv(Abs(perimeter(pts) - perimeter(lp.pts)) * 35, 100)} })

\* mutant: the threshold is the smaller of the two settings
moveThresholdMin == Min(minMovePx, cornerInterpEpsilonPx)

moveThreshold == Max(minMovePx, cornerInterpEpsilonPx)

\* mutant: the interpolation budget ignores the quality scalar
effectiveMaxIgnoringQuality(perfQuality) == Max(1, maxInterpPerPush)

\* Math.max(1, Math.round(CFG.trail.maxInterpPerPush * perfQuality))
effectiveMaxInterpPerPush(perfQuality) ==
    Max(1, (2 * maxInterpPerPush * perfQuality + QS) \div (2 * QS))

\* Math.ceil(interpMetric / adaptiveStep), adaptiveStep =
\*   max(1e-4, adaptiveInterpStepPx || interpStepPx) / max(perfQuality, 1e-4)
\* (1e-4 of quality is one unit; 1e-4 px is below one length unit)
StepsForMetric(interpMetric, perfQuality) ==
    CeilDiv(interpMetric * Max(perfQuality, 1),
            Max(1, IF adaptiveInterpStepPx # 0 THEN adaptiveInterpStepPx ELSE interpStepPx) * QS)

SegmentsFor(interpMetric, perfQuality) ==
    Min(effectiveMaxInterpPerPush(perfQuality), Max(1, StepsForMetric(interpMetric, perfQuality)))

\* smooth = smoothBase * (1 - release), in 1/QS
SmoothFor(rawCenterDist) ==
    IDiv(clamp(temporalSmoothFactor, 0, 9500)
           * (QS - clamp(IDiv(rawCenterDist * QS, Max(1, smoothReleaseDistancePx)), 0, QS)),
         QS)

\* maxStep = cornerStepClampPx + max(0, cornerStepSpeedScale) * rawCenterDist
MaxStepFor(rawCenterDist) == cornerStepClampPx + Max(0, cornerStepSpeedScale) * rawCenterDist

\* lines 1678-1680: temporal smoothing toward the previous sample
SmoothToward(lp, p1, smooth) ==
    IF smooth > 0 /\ Len(lp.pts) = Len(p1) THEN lerpPolygon(p1, lp.pts, smooth, QS) ELSE p1

\* lines 1682-1686: per-corner step clamp
ClampSteps(lp, p2, maxStep) ==
    IF cornerStepClampPx > 0 /\ Len(lp.pts) = Len(p2)
    THEN [i \in 1..Len(p2) |-> clampPointStep(lp.pts[i], p2[i], maxStep)] ELSE p2

\* the polygon after re-matching, smoothing, step clamp, re-canonicalization
\* and correction (lines 1667-1692), for a push that has a previous sample lp
ProcessAgainstLast(lp, pts0, targetPoint) ==
    Only({ Only({ Only({ Only({
        IF targetPoint.some THEN enforceLeadingAxisCorner(p4, targetPoint) ELSE p4 :
        p4 \in {IF twistGuardEnabled /\ Len(lp.pts) = Len(p3)
                THEN canonicalizePolygon(p3, lp.pts) ELSE p3} }) :
        p3 \in {ClampSteps(lp, p2, MaxStepFor(rawCenterDist))} }) :
        p2 \in {SmoothToward(lp, p1, SmoothFor(rawCenterDist))} }) :
        p1 \in {IF twistGuardEnabled /\ Len(lp.pts) = Len(pts0)
                THEN canonicalizePolygon(pts0, lp.pts) ELSE pts0},
        rawCenterDist \in {CenterDistTo(lp, pts0)} })

\* a call that returns without storing anything
Rejected(tr, lp, why, interpMetric) ==
    [trail |-> tr, lastPushed |-> lp, outcome |-> why,
     metric |-> interpMetric, segments |-> 0, entries |-> <<>>]

\* lines 1657-1665: the first sample
PushFirst(tr, first) ==
    [trail |-> CapTrail(Append(tr, first)), lastPushed |-> first,
     outcome |-> "first", metric |-> 0, segments |-> 0, entries |-> <<first>>]

\* lines 1715-1742: append the interpolated entries, move the reference, cap
PushEntries(tr, lp, interpMetric, segments, entries) ==
    [trail |-> CapTrail(tr \o entries),
     lastPushed |-> IF entries # <<>> THEN entries[Len(entries)] ELSE lp,
     outcome |-> "interpolated", metric |-> interpMetric,
     segments |-> segments, entries |-> entries]

\* lines 1693-1742, for the processed polygon pts
PushProcessed(tr, lp, pts, targetPoint, stampMs, perfQuality) ==
    IF ~isValidTrailPolygon(pts) THEN Rejected(tr, lp, "invalidAfter", 0)
    ELSE Only({ IF interpMetric < moveThreshold
                THEN Rejected(tr, lp, "belowThreshold", interpMetric)
                ELSE Only({ Only({ PushEntries(tr, lp, interpMetric, segments, entries) :
                                   entries \in {InterpEntries(1, segments, lp.pts, pts,
                                                              targetPoint, stampMs, lp.pts)} }) :
                            segments \in {SegmentsFor(interpMetric, perfQuality)} }) :
                interpMetric \in {InterpMetric(lp, pts)} })

\* lines 1647-1653: canonicalize against the previous sample, correct the
\* leading corner
PreparePolygon(lp, poly, targetPoint) ==
    Only({ IF targetPoint.some THEN enforceLeadingAxisCorner(c0, targetPoint) ELSE c0 :
           c0 \in {IF twistGuardEnabled THEN canonicalizePolygon(poly, lp.pts) ELSE poly} })

\* pushTrailPolygon as a function of the store: the new store and what the
\* call did (outcome: "short" | "invalid" | "first" | "invalidAfter" |
\* "belowThreshold" | "interpolated")
PushResult(tr, lp, poly, targetPoint, stampMs, perfQuality) ==
    IF Len(poly) < 3 THEN Rejected(tr, lp, "short", 0)
    ELSE Only({ IF ~isValidTrailPolygon(pts0) THEN Rejected(tr, lp, "invalid", 0)
                ELSE IF lp = NullSample
                THEN PushFirst(tr, Sample(stampMs, polygonCenter(pts0), pts0))
                ELSE Only({ PushProcessed(tr, lp, pts, targetPoint, stampMs, perfQuality) :
                            pts \in {ProcessAgainstLast(lp, pts0, targetPoint)} }) :
                pts0 \in {PreparePolygon(lp, poly, targetPoint)} })

\* trail.splice(i, 1), i counted from 1
SpliceOne(tr, i) == SubSeq(tr, 1, i - 1) \o SubSeq(tr, i + 1, Len(tr))

\* for (i = trail.length - 1; i >= 0; i--) if (now - trail[i].t > ttl) splice(i, 1)
\* mutant: a sample exactly ttlMs old is removed too
RECURSIVE PruneLoopInclusive(_, _, _)
PruneLoopInclusive(tr, i, now) ==
    IF i < 1 THEN tr
    ELSE IF now - tr[i].t >= ttlMs THEN PruneLoopInclusive(SpliceOne(tr, i), i - 1, now)
    ELSE PruneLoopInclusive(tr, i - 1, now)

RECURSIVE PruneLoop(_, _, _)
PruneLoop(tr, i, now) ==
    IF i < 1 THEN tr
    ELSE IF now - tr[i].t > ttlMs THEN PruneLoop(SpliceOne(tr, i), i - 1, now)
    ELSE PruneLoop(tr, i - 1, now)
PruneResult(tr, now) == PruneLoop(tr, Len(tr), now)

\* ------------------------------------------------------------------------
\* SECTION 1: Configuration used by the tick loop, in model units
\* (times in ms, frame times in 1/100 ms, factors and quality in 1/QS)
\* ------------------------------------------------------------------------
rectPadPx == 200                \* CFG.rect.padPx = 2 px
minMoveCharsForTrail == 15000   \* CFG.trail.minMoveCharsForTrail = 1.5
targetFrameMs == 1670           \* CFG.performance.targetFrameMs = 16.7 ms
framePressureWindowMs == 800    \* CFG.performance.framePressureWindowMs = 8.0 ms
emaAlpha == 1600                \* CFG.performance.emaAlpha = 0.16
distanceNormPx == 12000         \* CFG.performance.distanceNormPx = 120 px
frameWeight == 7000             \* CFG.performance.frameWeight = 0.7
distanceWeight == 3000          \* CFG.performance.distanceWeight = 0.3
qualityMin == 3800              \* CFG.performance.qualityMin = 0.38
degradeRatePerSec == 45000      \* CFG.performance.degradeRatePerSec = 4.5
recoverRatePerSec == 16000      \* CFG.performance.recoverRatePerSec = 1.6
animationLength == 250          \* CFG.animation.length = 0.25 s
shortLength == 125              \* CFG.animation.shortLength = 0.125 s
shortMoveThresholdPx == 3200    \* CFG.animation.shortMoveThresholdPx = 32 px
rankFactors == <<8000, 4000, 4000, 2000>>   \* CFG.dynamics.rankFactors
hardSnap == FALSE               \* CFG.dynamics.hardSnap
leadingSnapFactor == 1000       \* CFG.dynamics.leadingSnapFactor = 0.1
leadingSnapThreshold == 3200    \* CFG.dynamics.leadingSnapThreshold = 0.32
maxTrailDistanceFactor == 8     \* CFG.dynamics.maxTrailDistanceFactor
snapAnimationLength == 160      \* CFG.dynamics.snapAnimationLength = 0.16 s
overshootEnabled == TRUE        \* CFG.overshoot.enabled
kickPerPx == 6400               \* CFG.overshoot.kickPerPx = 0.64
maxKick == 160000               \* CFG.overshoot.maxKick = 16 (in 1/QS)
omega == 16                     \* CFG.overshoot.omega
zeta == 1600                    \* CFG.overshoot.zeta = 0.16
noCursorHideDelayMs == 50       \* CFG.visibility.noCursorHideDelayMs
metricEpsilonPx == 100          \* CFG.typography.metricEpsilonPx = 1 px
centerMoveEpsilonPx == 75       \* CFG.motion.centerMoveEpsilonPx = 0.75 px
maxDtMs == 50                   \* the 0.05 s cap of dtSec in rafLoop

\* x * n / d without an intermediate product beyond 32 bits (n, d > 0)
MulDiv(x, n, d) ==
    Only({ IF v >= 0 THEN (v \div d) * n + IDiv((v % d) * n, d)
           ELSE -(((-v) \div d) * n + IDiv(((-v) % d) * n, d)) : v \in {x} })

\* ------------------------------------------------------------------------
\* SECTION 5: Critically damped spring (1D)
\* A spring is [pos, vel, tau]: pos in 1/1000 px, vel in 1/1000 px per
\* second, tau in ms.
\* ------------------------------------------------------------------------
ES == 10000                     \* Math.exp results are kept in 1/ES

\* the alternating series t0 - (t1 - (t2 - ...)), t(k) = t(k-1) * num / (den * k)
RECURSIVE ExpSeries(_, _, _, _)
ExpSeries(term, k, num, den) ==
    IF term = 0 THEN 0
    ELSE Only({ term - ExpSeries(nxt, k + 1, num, den) :
                nxt \in {MulDiv(term, num, den * k)} })

\* Math.exp(-num / den) for 0 <= num / den < 4
ExpNeg(num, den) == clamp(IDiv(ExpSeries(100 * ES, 1, num, den), 100), 0, ES)

Spring(p, v, t) == [pos |-> p, vel |-> v, tau |-> t]

\* CritDamped1D.step(dt): the spring after the step and the returned flag.
\* |pos| < 0.001 px is pos = 0 on the grid, |pos| >= 0.01 px is |pos| >= 10.
SpringAdvance(s, dtMs, aO, c) ==
    Only({ Only({ [s |-> Spring(MulDiv(s.pos + bdt, c, ES),
                                MulDiv(b - aO - MulDiv(bdt, 4000, s.tau), c, ES),
                                s.tau),
                   moving |-> Abs(MulDiv(s.pos + bdt, c, ES)) >= 10] :
                  bdt \in {MulDiv(b, dtMs, 1000)} }) :
           b \in {aO + s.vel} })

CritDampedStep(s, dtMs) ==
    IF s.tau <= dtMs \/ s.pos = 0
    THEN [s |-> Spring(0, 0, s.tau), moving |-> FALSE]
    ELSE SpringAdvance(s, dtMs, MulDiv(s.pos, 4000, s.tau), ExpNeg(4 * dtMs, s.tau))

\* ------------------------------------------------------------------------
\* SECTION 6: Under-damped overshoot oscillator; x and v in 1/OS
\* ------------------------------------------------------------------------
OS == 1000000                   \* oscillator state is kept in 1/OS

Oscillator(px, pv) == [x |-> px, v |-> pv]

\* kick(impulse)
BounceKick(b, impulse) == Oscillator(b.x, b.v + impulse)

\* mutant: no deadzone
BounceStepCreeping(b, num, den) ==
    Only({ Oscillator(b.x + MulDiv(v1, num, den), v1) :
           v1 \in {b.v + MulDiv(-MulDiv(b.v, 2 * zeta * omega, QS) - omega * omega * b.x,
                                num, den)} })

\* step(dt) for dt = num / den seconds: a = -2 z w v - w^2 x; v += a dt;
\* x += v dt; deadzone |x| < 1e-4 and |v| < 1e-3
BounceStepBy(b, num, den) ==
    Only({ Only({ IF Abs(x1) < OS \div 10000 /\ Abs(v1) < OS \div 1000
                  THEN Oscillator(0, 0) ELSE Oscillator(x1, v1) :
                  x1 \in {b.x + MulDiv(v1, num, den)} }) :
           v1 \in {b.v + MulDiv(-MulDiv(b.v, 2 * zeta * omega, QS) - omega * omega * b.x,
                                num, den)} })

\* step(dt) for dt in ms
BounceStep(b, dtMs) == BounceStepBy(b, dtMs, 1000)

\* ------------------------------------------------------------------------
\* SECTION 7: Corner control
\* A corner is [cx, cy, sx, sy, pdx, pdy]; rel is kept in halves.  Corner
\* positions and spring offsets are kept in 1/1000 px (CU per length unit),
\* so that the thresholds 0.001 px and 0.01 px of the springs are 1 and 10.
\* ------------------------------------------------------------------------
REL_CORNERS ==
    << [x |-> -1, y |-> -1], [x |-> 1, y |-> -1], [x |-> 1, y |-> 1], [x |-> -1, y |-> 1] >>

CU == 10                        \* corner units per length unit
FarAway == -100000 * PX * CU    \* the -1e5 of a corner not yet placed

\* new Corner(rel)
NewCorner ==
    [cx |-> FarAway, cy |-> FarAway,
     sx |-> Spring(0, 0, animationLength), sy |-> Spring(0, 0, animationLength),
     pdx |-> FarAway, pdy |-> FarAway]

\* getDest(centerX, centerY, w, h)
getDest(rel, centerX, centerY, w, h) ==
    Pt(CU * centerX + rel.x * IDiv(CU * w, 2), CU * centerY + rel.y * IDiv(CU * h, 2))

\* the hard-snap test of Corner.update for a setting of CFG.dynamics.hardSnap;
\* leadingness = rank / 3
SnapsHardWhen(enabled, rank) == enabled /\ IDiv(rank * QS, 3) >= leadingSnapThreshold
SnapsHard(rank) == SnapsHardWhen(hardSnap, rank)

\* lines 1126-1131: the time constant for a setting of hardSnap, ms
CornerTauWhen(enabled, useShort, rank) ==
    IF SnapsHardWhen(enabled, rank) THEN snapAnimationLength
    ELSE Max(10, IDiv((IF useShort THEN shortLength ELSE animationLength) * rankFactors[rank + 1],
                      QS))

\* mutant: every corner follows with a time constant of 5 s
CornerTauSlow(useShort, rank) == 20 * animationLength

\* the time constant chosen by Corner.update, ms
CornerTau(useShort, rank) == CornerTauWhen(hardSnap, useShort, rank)

\* lines 1136-1144: the leading-snap jump of the corner position, for a
\* setting of hardSnap and of leadingSnapFactor
SnapJumpBy(enabled, factor, c, dest, rank) ==
    IF SnapsHardWhen(enabled, rank) /\ hypot(dest.x - c.pdx, dest.y - c.pdy) > 0
    THEN [c EXCEPT !.cx = c.cx + MulDiv(dest.x - c.pdx, factor, QS),
                   !.cy = c.cy + MulDiv(dest.y - c.pdy, factor, QS)]
    ELSE c
SnapJump(c, dest, rank) == SnapJumpBy(hardSnap, leadingSnapFactor, c, dest, rank)

\* lines 1146-1159: this.cx = dest.x + this.sx.pos replaces the position c
\* had after the jump; then the stretch clamp and the new previous destination
CornerSettle(c, dest, mx, my, maxStretch) ==
    [c |-> [cx |-> clamp(dest.x + mx.s.pos, dest.x - maxStretch, dest.x + maxStretch),
            cy |-> clamp(dest.y + my.s.pos, dest.y - maxStretch, dest.y + maxStretch),
            sx |-> mx.s, sy |-> my.s, pdx |-> dest.x, pdy |-> dest.y],
     moving |-> mx.moving \/ my.moving]

\* lines 1121-1159, for a corner that has been placed.  The springs are
\* re-based on the position before the jump (line 1121 precedes line 1141).
CornerFollowBy(enabled, factor, c, dest, dtMs, tau, rank, maxStretch) ==
    Only({ CornerSettle(jumped, dest, mx, my, maxStretch) :
           jumped \in {SnapJumpBy(enabled, factor, c, dest, rank)},
           mx \in {CritDampedStep(Spring(c.cx - dest.x, c.sx.vel, tau), dtMs)},
           my \in {CritDampedStep(Spring(c.cy - dest.y, c.sy.vel, tau), dtMs)} })
CornerFollow(c, dest, dtMs, tau, rank, maxStretch) ==
    CornerFollowBy(hardSnap, leadingSnapFactor, c, dest, dtMs, tau, rank, maxStretch)

\* Corner.update(dt, centerX, centerY, w, h, rankFactor, snapState) for a
\* setting of hardSnap and leadingSnapFactor: the corner after the update and
\* the returned flag
CornerUpdateBy(enabled, factor, c, rel, dtMs, target, useShort, rank) ==
    Only({ IF c.pdx < -10000 * PX * CU
           THEN [c |-> [cx |-> dest.x, cy |-> dest.y,
                        sx |-> Spring(0, 0, c.sx.tau), sy |-> Spring(0, 0, c.sy.tau),
                        pdx |-> dest.x, pdy |-> dest.y],
                 moving |-> FALSE]
           ELSE CornerFollowBy(enabled, factor, c, dest, dtMs,
                               CornerTauWhen(enabled, useShort, rank), rank,
                               maxTrailDistanceFactor * Max(target.w, target.h) * CU) :
           dest \in {getDest(rel, target.cx, target.cy, target.w, target.h)} })

\* Corner.update with the settings as shipped.  The time constant is
\* CornerTau, which is CornerTauWhen(hardSnap, ..).
CornerUpdate(c, rel, dtMs, target, useShort, rank) ==
    Only({ IF c.pdx < -10000 * PX * CU
           THEN [c |-> [cx |-> dest.x, cy |-> dest.y,
                        sx |-> Spring(0, 0, c.sx.tau), sy |-> Spring(0, 0, c.sy.tau),
                        pdx |-> dest.x, pdy |-> dest.y],
                 moving |-> FALSE]
           ELSE CornerFollow(c, dest, dtMs, CornerTau(useShort, rank), rank,
                             maxTrailDistanceFactor * Max(target.w, target.h) * CU) :
           dest \in {getDest(rel, target.cx, target.cy, target.w, target.h)} })

\* a Corner that has not been updated yet, and what is remembered of its
\* last update: the corner if leadingSnapFactor were 0, the rank it had,
\* whether it had been placed and whether its destination moved
NewSnap ==
    [n |-> 0, c |-> NewCorner, plain |-> NewCorner, rank |-> 0, placed |-> FALSE,
     hard |-> FALSE, destMoved |-> FALSE]

\* corner.update(dt, ...) of the top-left corner with CFG.dynamics.hardSnap
\* = true, next to the same update with CFG.dynamics.leadingSnapFactor = 0
SnapUpdated(s, dtMs, target, rank) ==
    Only({ [n |-> s.n + 1,
            c |-> CornerUpdateBy(TRUE, leadingSnapFactor, s.c, REL_CORNERS[1], dtMs, target,
                                 FALSE, rank).c,
            plain |-> CornerUpdateBy(TRUE, 0, s.c, REL_CORNERS[1], dtMs, target, FALSE, rank).c,
            rank |-> rank,
            placed |-> s.c.pdx >= -10000 * PX * CU,
            hard |-> SnapsHardWhen(TRUE, rank),
            destMoved |-> s.c.pdx >= -10000 * PX * CU
                          /\ hypot(dest.x - s.c.pdx, dest.y - s.c.pdy) > 0] :
           dest \in {getDest(REL_CORNERS[1], target.cx, target.cy, target.w, target.h)} })

\* ------------------------------------------------------------------------
\* SECTION 8: Cursor squish controller
\* cursor is [corners, target: [cx, cy, w, h], last: [cx, cy, t]]
\* ------------------------------------------------------------------------
NO_MOTION == [dx |-> 0, dy |-> 0, dist |-> 0, useShort |-> FALSE]

\* new CursorSquish() at time t
NewCursorSquish(t) ==
    [corners |-> [i \in 1..4 |-> NewCorner],
     target |-> [cx |-> 0, cy |-> 0, w |-> 8 * PX, h |-> 18 * PX],
     last |-> [cx |-> 0, cy |-> 0, t |-> t]]

\* the motion record returned by setTargetFromRect(r)
MotionTo(cur, r) ==
    Only({ [dx |-> dx, dy |-> dy, dist |-> hypot(dx, dy),
            useShort |-> hypot(dx, dy) <= shortMoveThresholdPx] :
           dx \in {r.left + IDiv(r.width, 2) - cur.last.cx},
           dy \in {r.top + IDiv(r.height, 2) - cur.last.cy} })

\* the controller after setTargetFromRect(r)
setTargetFromRect(cur, r) ==
    [cur EXCEPT !.target = [cx |-> r.left + IDiv(r.width, 2), cy |-> r.top + IDiv(r.height, 2),
                            w |-> Max(PX, r.width), h |-> Max(PX, r.height)],
                !.last.cx = r.left + IDiv(r.width, 2),
                !.last.cy = r.top + IDiv(r.height, 2)]

\* twice align[i] times the motion length: rel . (dx, dy), or 0 without motion
Align(motion, i) ==
    IF motion.dist > 0 THEN REL_CORNERS[i].x * motion.dx + REL_CORNERS[i].y * motion.dy ELSE 0

\* rankOf[i], 0 = trailing .. 3 = leading (the sort of idxs is stable)
RankOf(motion, i) ==
    Cardinality({ j \in 1..4 : \/ Align(motion, j) < Align(motion, i)
                               \/ Align(motion, j) = Align(motion, i) /\ j < i })

\* CursorSquish.step(dtSec, motionInfo): the controller after the step and
\* the returned anyMoving
CursorStep(cur, dtMs, motion) ==
    Only({ [cursor |-> [cur EXCEPT !.corners = [i \in 1..4 |-> upd[i].c]],
            moving |-> \E i \in 1..4 : upd[i].moving] :
           upd \in {[i \in 1..4 |-> CornerUpdate(cur.corners[i], REL_CORNERS[i], dtMs,
                                                 cur.target, motion.useShort,
                                                 RankOf(motion, i))]} })

\* getTargetRect()
getTargetRect(cur) ==
    [left |-> cur.target.cx - IDiv(cur.target.w, 2), top |-> cur.target.cy - IDiv(cur.target.h, 2),
     width |-> Max(PX, cur.target.w), height |-> Max(PX, cur.target.h)]

\* one vertex pushed away from the centre c by padPx
PadPoint(p, c, padPx) ==
    Only({ IF len = 0 THEN p
           ELSE Pt(c.x + MulDiv(p.x - c.x, len + padPx, len),
                   c.y + MulDiv(p.y - c.y, len + padPx, len)) :
           len \in {hypot(p.x - c.x, p.y - c.y)} })

\* getCornerPolygon(padPx)
getCornerPolygon(cur, padPx) ==
    Only({ IF ~(padPx > 0) THEN pts
           ELSE Only({ [i \in 1..4 |-> PadPoint(pts[i], c, padPx)] : c \in {polygonCenter(pts)} }) :
           pts \in {[i \in 1..4 |-> Pt(IDiv(cur.corners[i].cx, CU), IDiv(cur.corners[i].cy, CU))]} })

\* ------------------------------------------------------------------------
\* SECTION 10: main loop state (the closure of installTrailInDom)
\* ------------------------------------------------------------------------
NeverSeen == -1000000           \* lastCursorSeenMs = -Infinity

\* null and non-null values of lastAnchorCenter, liveCaretRect, pendingMotion
Null == [some |-> FALSE]
Some(v) == [some |-> TRUE, val |-> v]

\* The editor's font: resolveFontMetricBox(el) for a 14 px font with a
\* 19 px line height (caretWidthEm = 1).  The font does not change, so the
\* 250 ms cache of this box is not visible.
FontBox == [width |-> 14 * PX, height |-> 19 * PX]

\* What the document shows to a frame: no cursor element ("absent"), a
\* cursor element of empty size ("collapsed"), or a caret centred at
\* (cx, cy) ("shown").
View(kind, cx, cy) == [kind |-> kind, cx |-> cx, cy |-> cy]

\* snapToDevicePixel(v) with devicePixelRatio = 1: Math.round(v)
snapToDevicePixel(v) == IDiv(v, PX) * PX

\* didCenterMove(prevCenter, nextCenter, epsilon)
didCenterMove(prevCenter, nextCenter, epsilon) ==
    \/ ~prevCenter.some
    \/ hypot(nextCenter.cx - prevCenter.val.cx, nextCenter.cy - prevCenter.val.cy) > epsilon

\* the closure state after the constructor code, at time t
NewLoop(t) ==
    [cursor |-> NewCursorSquish(t),
     bounce |-> Oscillator(0, 0),
     cursorEl |-> FALSE,
     lastCanvasHost |-> FALSE,
     lastAnchorCenter |-> Null,
     lastFontBox |-> Null,
     liveCaretRect |-> Null,
     pendingMotion |-> Null,
     perfFrameEmaMs |-> targetFrameMs,
     perfQuality |-> QS,
     perfTargetQuality |-> QS,
     trailAllowedForCurrentMove |-> TRUE,
     minMoveChars |-> minMoveCharsForTrail,
     lastRealMoveMs |-> t,
     lastCursorSeenMs |-> NeverSeen,
     canvasVisible |-> FALSE]

\* ensureCursorEl(): the cached element while the document contains it,
\* else the first cursor element of non-empty size
ensureCursorEl(L, view) ==
    IF L.cursorEl /\ view.kind # "absent" THEN TRUE ELSE view.kind = "shown"

\* mutant: every caret hop allows trail emission
PollChangedAllowing(L, frameNowMs, synthRect, center, centerChanged, motion) ==
    [L EXCEPT !.lastAnchorCenter = Some(center),
              !.lastFontBox = Some(FontBox),
              !.pendingMotion = Some(motion),
              !.cursor = setTargetFromRect(L.cursor, synthRect),
              !.trailAllowedForCurrentMove = TRUE,
              !.lastRealMoveMs = IF centerChanged THEN frameNowMs ELSE @]

\* lines 2332-2341: the caret changed; L.minMoveChars is
\* CFG.trail.minMoveCharsForTrail
PollChanged(L, frameNowMs, synthRect, center, centerChanged, motion) ==
    [L EXCEPT !.lastAnchorCenter = Some(center),
              !.lastFontBox = Some(FontBox),
              !.pendingMotion = Some(motion),
              !.cursor = setTargetFromRect(L.cursor, synthRect),
              !.trailAllowedForCurrentMove =
                  IF centerChanged
                  THEN motion.dist >= IDiv(Max(0, L.minMoveChars) * Max(1, FontBox.width), QS)
                  ELSE @,
              !.lastRealMoveMs = IF centerChanged THEN frameNowMs ELSE @]

\* lines 2298-2342, for a caret of non-empty size centred at center
PollShown(L, frameNowMs, center, synthRect) ==
    Only({ IF ~(~L.lastAnchorCenter.some \/ centerChanged \/ metricChanged)
           THEN [L |-> L, hasCursor |-> TRUE]
           ELSE [L |-> PollChanged(L, frameNowMs, synthRect, center, centerChanged,
                                   MotionTo(L.cursor, synthRect)),
                 hasCursor |-> TRUE] :
           centerChanged \in {didCenterMove(L.lastAnchorCenter, center, centerMoveEpsilonPx)},
           metricChanged \in {\/ ~L.lastFontBox.some
                              \/ Abs(FontBox.width - L.lastFontBox.val.width) > metricEpsilonPx
                              \/ Abs(FontBox.height - L.lastFontBox.val.height) > metricEpsilonPx} })

\* the synthetic caret rectangle around a centre
SynthRect(center) ==
    [left |-> center.cx - IDiv(FontBox.width, 2), top |-> center.cy - IDiv(FontBox.height, 2),
     width |-> FontBox.width, height |-> FontBox.height]

\* pollNativeCursorRect(frameNowMs): the closure after the poll and the
\* returned flag
pollNativeCursorRect(L, frameNowMs, view) ==
    IF ~ensureCursorEl(L, view) \/ view.kind # "shown"
    THEN [L |-> [L EXCEPT !.cursorEl = ensureCursorEl(L, view)], hasCursor |-> FALSE]
    ELSE Only({ PollShown([L EXCEPT !.cursorEl = TRUE,
                                    !.lastCursorSeenMs = frameNowMs,
                                    !.liveCaretRect = Some(SynthRect(center))],
                          frameNowMs, center, SynthRect(center)) :
                center \in {[cx |-> snapToDevicePixel(view.cx), cy |-> snapToDevicePixel(view.cy)]} })

\* lines 2372-2396: the adaptive quality update
\* mutant: the recovery is not limited by the target
RecoverUnbounded(target, quality, dtMs) ==
    IF target < quality
    THEN Max(target, quality - MulDiv(degradeRatePerSec, dtMs, 1000))
    ELSE quality + MulDiv(recoverRatePerSec, dtMs, 1000)

\* lines 2386-2390
ApproachTarget(target, quality, dtMs) ==
    IF target < quality
    THEN Max(target, quality - MulDiv(degradeRatePerSec, dtMs, 1000))
    ELSE Min(target, quality + MulDiv(recoverRatePerSec, dtMs, 1000))

\* framePressure, from the frame-time average (1/100 ms)
FramePressure(ema) ==
    clamp(IDiv((ema - targetFrameMs) * QS, Max(1, framePressureWindowMs)), 0, QS)

\* distancePressure = clamp(dist / distanceNormPx, 0, 1); the quotient is
\* taken of min(dist, distanceNormPx), which has the same clamped value
DistancePressure(dist) ==
    clamp(IDiv(Min(dist, Max(1, distanceNormPx)) * QS, Max(1, distanceNormPx)), 0, QS)

\* perfTargetQuality = 1 - hybridPressure * (1 - qualityMin)
TargetQuality(ema, dist) ==
    QS - IDiv(clamp(IDiv(frameWeight * FramePressure(ema) + distanceWeight * DistancePressure(dist),
                         QS), 0, QS) * (QS - qualityMin), QS)

\* mutant: the final clamp to [qualityMin, 1] is missing and the rate
\* limit is applied without the target
QualityUnclamped(L, enabled, dtMs, dist) ==
    IF enabled
    THEN Only({ [L EXCEPT !.perfFrameEmaMs = ema,
                          !.perfTargetQuality = TargetQuality(ema, dist),
                          !.perfQuality = L.perfQuality - MulDiv(degradeRatePerSec, dtMs, 1000)] :
                ema \in {lerp(L.perfFrameEmaMs, dtMs * 100, emaAlpha, QS)} })
    ELSE [L EXCEPT !.perfFrameEmaMs = targetFrameMs, !.perfTargetQuality = QS, !.perfQuality = QS]

UpdateQuality(L, enabled, dtMs, dist) ==
    IF enabled
    THEN Only({ Only({ [L EXCEPT !.perfFrameEmaMs = ema,
                                 !.perfTargetQuality = target,
                                 !.perfQuality = clamp(ApproachTarget(target, L.perfQuality, dtMs),
                                                       qualityMin, QS)] :
                       target \in {TargetQuality(ema, dist)} }) :
                ema \in {lerp(L.perfFrameEmaMs, dtMs * 100, emaAlpha, QS)} })
    ELSE [L EXCEPT !.perfFrameEmaMs = targetFrameMs, !.perfTargetQuality = QS, !.perfQuality = QS]

\* ------------------------------------------------------------------------
\* SECTION 10: rafLoop
\* ------------------------------------------------------------------------
\* what one execution of rafLoop did (history)
Frame(path, threw, dtMs, hasCursor, before, moving, push, pruned, inTry, afterTry) ==
    [path |-> path, threw |-> threw, dtMs |-> dtMs, hasCursor |-> hasCursor,
     qualityBefore |-> before.perfQuality, moving |-> moving, push |-> push,
     pruned |-> pruned, scheduledInTry |-> inTry, scheduledAfterTry |-> afterTry]

\* mutant: the early return is missing, the tail call runs as well
ScheduledAfterTryAlways(returnedEarly) == 1

\* requestAnimationFrame(rafLoop) after the try/catch (line 2445): reached
\* unless the try block returned (line 2365)
ScheduledAfterTry(returnedEarly) == IF returnedEarly THEN 0 ELSE 1

\* the result of a tick: the closure, the store, the canvas and the frame
TickResult(L, tr, lp, parent, f) ==
    [loop |-> L, trail |-> tr, lastPushed |-> lp, canvasParent |-> parent, frame |-> f]

\* lines 2349-2355: attach the canvas to the cursor's host
AttachedParent(L, parent) == IF L.cursorEl THEN "host" ELSE parent
AttachedLoop(L) == IF L.cursorEl /\ ~L.lastCanvasHost THEN [L EXCEPT !.lastCanvasHost = TRUE] ELSE L

\* lines 2361-2366: the cursor is not visible
TickHidden(L0, L, tr, lp, parent, dtMs, hasCursor, throwAt) ==
    IF throwAt = "canvas"
    THEN TickResult(L, tr, lp, parent,
                    Frame("hidden", TRUE, dtMs, hasCursor, L0, FALSE, Null, FALSE,
                          0, ScheduledAfterTry(FALSE)))
    ELSE TickResult(L, tr, lp, parent,
                    Frame("hidden", FALSE, dtMs, hasCursor, L0, FALSE, Null, FALSE,
                          1, ScheduledAfterTry(TRUE)))

\* lines 2398-2407: kick the oscillator, step the controller and the oscillator
TickDynamics(L, dtMs, motion) ==
    Only({ [L |-> [L EXCEPT !.cursor = stepped.cursor,
                            !.bounce = BounceStep(
                                IF overshootEnabled /\ motion.dist > 0
                                THEN BounceKick(L.bounce,
                                                clamp(MulDiv(motion.dist, kickPerPx, PX), 0, maxKick)
                                                    * (OS \div QS))
                                ELSE L.bounce, dtMs)],
            moving |-> stepped.moving] :
           stepped \in {CursorStep(L.cursor, dtMs, motion)} })

\* trailTargetPoint: the centre of liveCaretRect ?? cursor.getTargetRect()
TrailTargetPoint(L) ==
    Only({ Target(boxRect.left + IDiv(boxRect.width, 2), boxRect.top + IDiv(boxRect.height, 2)) :
           boxRect \in {IF L.liveCaretRect.some THEN L.liveCaretRect.val
                        ELSE getTargetRect(L.cursor)} })

\* mutant: the store is not pruned by the tick
TickPruneNever(tr, wallNowMs) == tr

\* line 2425
TickPrune(tr, wallNowMs) == PruneResult(tr, wallNowMs)

\* lines 2420-2440: push when moving and allowed, prune, draw
TickStore(L0, L, tr, lp, parent, dtMs, hasCursor, moving, wallNowMs, throwAt) ==
    IF moving /\ L.trailAllowedForCurrentMove
    THEN Only({ TickResult(L, TickPrune(r.trail, wallNowMs), r.lastPushed, parent,
                           Frame("drawn", throwAt = "canvas", dtMs, hasCursor, L0, moving,
                                 Some(r), TRUE, 0, ScheduledAfterTry(FALSE))) :
                r \in {PushResult(tr, lp, getCornerPolygon(L.cursor, rectPadPx),
                                  TrailTargetPoint(L), wallNowMs, L.perfQuality)} })
    ELSE TickResult(L, TickPrune(tr, wallNowMs), lp, parent,
                    Frame("drawn", throwAt = "canvas", dtMs, hasCursor, L0, moving,
                          Null, TRUE, 0, ScheduledAfterTry(FALSE)))

\* lines 2367-2440: the cursor is visible
TickVisible(L0, L, enabled, tr, lp, parent, dtMs, hasCursor, motion, wallNowMs, throwAt) ==
    Only({ TickStore(L0, d.L, tr, lp, parent, dtMs, hasCursor, d.moving, wallNowMs, throwAt) :
           d \in {TickDynamics(UpdateQuality([L EXCEPT !.canvasVisible = TRUE,
                                                      !.pendingMotion = Null],
                                             enabled, dtMs, motion.dist),
                               dtMs, motion)} })

\* mutant: the visibility test is missing, every tick steps and stores
TickFrameAlwaysVisible(L0, L, enabled, tr, lp, parent, hasCursor, frameNowMs, throwAt) ==
    Only({ TickVisible(L0, [L EXCEPT !.cursor.last.t = frameNowMs], enabled, tr, lp, parent,
                       dtMs, hasCursor,
                       IF L.pendingMotion.some THEN L.pendingMotion.val ELSE NO_MOTION,
                       frameNowMs, throwAt) :
           dtMs \in {clamp(frameNowMs - L.cursor.last.t, 0, maxDtMs)} })

\* lines 2357-2440, after the poll and the attachment
TickFrame(L0, L, enabled, tr, lp, parent, hasCursor, frameNowMs, throwAt) ==
    Only({ IF ~(hasCursor \/ frameNowMs - L.lastCursorSeenMs <= noCursorHideDelayMs)
           THEN TickHidden(L0, [L EXCEPT !.cursor.last.t = frameNowMs, !.canvasVisible = FALSE],
                           tr, lp, parent, dtMs, hasCursor, throwAt)
           ELSE TickVisible(L0, [L EXCEPT !.cursor.last.t = frameNowMs], enabled, tr, lp, parent,
                            dtMs, hasCursor,
                            IF L.pendingMotion.some THEN L.pendingMotion.val ELSE NO_MOTION,
                            frameNowMs, throwAt) :
           dtMs \in {clamp(frameNowMs - L.cursor.last.t, 0, maxDtMs)} })

\* one execution of rafLoop at time frameNowMs, given what the document
\* shows and where (if anywhere) a DOM call throws: "poll" (line 2348),
\* "attach" (lines 2349-2355), "canvas" (clearCanvas at line 2363, or
\* resizeCanvas/draw at lines 2426-2440)
rafLoop(L, enabled, tr, lp, parent, frameNowMs, view, throwAt) ==
    IF throwAt = "poll"
    THEN TickResult(L, tr, lp, parent,
                    Frame("poll", TRUE, 0, FALSE, L, FALSE, Null, FALSE, 0, ScheduledAfterTry(FALSE)))
    ELSE Only({ IF throwAt = "attach"
                THEN TickResult(p.L, tr, lp, parent,
                                Frame("attach", TRUE, 0, p.hasCursor, L, FALSE, Null, FALSE,
                                      0, ScheduledAfterTry(FALSE)))
                ELSE TickFrame(L, AttachedLoop(p.L), enabled, tr, lp, AttachedParent(p.L, parent),
                               p.hasCursor, frameNowMs, throwAt) :
                p \in {pollNativeCursorRect(L, frameNowMs, view)} })

\* ------------------------------------------------------------------------
\* drawStackedHexTrail: the cells of one frame (CFG.trail.stackHex)
\* Directions are unit vectors in 1/QS, lengths in 1/100 px.
\* ------------------------------------------------------------------------
partialEdgeShare == 3500        \* CFG.trail.stackHex.partialEdgeShare = 0.35
concavityDepth == 1800          \* CFG.trail.stackHex.concavityDepth = 0.18
headQuadCells == 2              \* CFG.trail.stackHex.headQuadCells
overlapEpsilonPx == 250000      \* CFG.trail.stackHex.overlapEpsilonPx = 0.25 px, in 1e-6 px
minCellWidthPx == 80            \* CFG.trail.stackHex.minCellWidthPx = 0.8 px
hexBaseLenPx == 1100            \* CFG.trail.stackHex.baseLenPx = 11 px
hexMinLenPx == 400              \* CFG.trail.stackHex.minLenPx = 4 px
hexMaxLenPx == 2200             \* CFG.trail.stackHex.maxLenPx = 22 px
minWidthScale == 7200           \* CFG.trail.stackHex.minWidthScale = 0.72
maxWidthScale == 12500          \* CFG.trail.stackHex.maxWidthScale = 1.25
qualityCoarsenMax == 18000      \* CFG.trail.stackHex.qualityCoarsenMax = 1.8
sizeLerpAlpha == 3500           \* CFG.trail.stackHex.sizeLerpAlpha = 0.35
widthLerpAlpha == 3000          \* CFG.trail.stackHex.widthLerpAlpha = 0.3

pointSub(a, b) == Pt(a.x - b.x, a.y - b.y)
pointAdd(a, b) == Pt(a.x + b.x, a.y + b.y)
pointMid(a, b) == Pt(IDiv(a.x + b.x, 2), IDiv(a.y + b.y, 2))
pointLen(p) == hypot(p.x, p.y)
pointDot(a, b) == a.x * b.x + a.y * b.y
pointPerp(p) == Pt(-p.y, p.x)
\* the unit vector of p, in 1/QS; (0, 0) for a vector shorter than 1e-6
pointNormalize(p) ==
    Only({ IF d = 0 THEN Pt(0, 0) ELSE Pt(IDiv(p.x * QS, d), IDiv(p.y * QS, d)) :
           d \in {pointLen(p)} })
\* p + dir * len for a unit vector dir in 1/QS
pointAlong(p, dir, len) == Pt(p.x + IDiv(dir.x * len, QS), p.y + IDiv(dir.y * len, QS))

RECURSIVE MinOver(_, _, _)
MinOver(pts, i, axis) ==
    IF i = 1 THEN pts[1][axis] ELSE Min(pts[i][axis], MinOver(pts, i - 1, axis))
RECURSIVE MaxOver(_, _, _)
MaxOver(pts, i, axis) ==
    IF i = 1 THEN pts[1][axis] ELSE Max(pts[i][axis], MaxOver(pts, i - 1, axis))
aabbFromPolygon(pts) ==
    [minX |-> MinOver(pts, Len(pts), "x"), minY |-> MinOver(pts, Len(pts), "y"),
     maxX |-> MaxOver(pts, Len(pts), "x"), maxY |-> MaxOver(pts, Len(pts), "y")]
aabbOverlaps(a, b, eps) ==
    ~(\/ a.maxX < b.minX - EpsLen(eps) \/ b.maxX < a.minX - EpsLen(eps)
      \/ a.maxY < b.minY - EpsLen(eps) \/ b.maxY < a.minY - EpsLen(eps))

\* pt.x < xCross for the edge from poly[j] to poly[i], where
\* xCross = (xj - xi) * (pt.y - yi) / Math.max(1e-9, yj - yi) + xi: for an
\* edge with yj <= yi the divisor is 1e-9 and xCross is beyond every
\* coordinate on the side of the numerator's sign
LeftOfCrossing(pt, pi, pj) ==
    IF pj.y - pi.y > 0
    THEN (pt.x - pi.x) * (pj.y - pi.y) < (pj.x - pi.x) * (pt.y - pi.y)
    ELSE IF (pj.x - pi.x) * (pt.y - pi.y) = 0 THEN pt.x < pi.x
    ELSE (pj.x - pi.x) * (pt.y - pi.y) > 0

\* the edges (j, i), j the predecessor of i, that toggle inside
pointInPolygon(pt, poly) ==
    Cardinality({ i \in 1..Len(poly) :
        \E pi \in {poly[i]}, pj \in {poly[IF i = 1 THEN Len(poly) ELSE i - 1]} :
            /\ (pi.y > pt.y) # (pj.y > pt.y)
            /\ LeftOfCrossing(pt, pi, pj) }) % 2 = 1

polygonsOverlap(a, b, eps) ==
    IF Len(a) < 3 \/ Len(b) < 3 THEN FALSE
    ELSE IF ~aabbOverlaps(aabbFromPolygon(a), aabbFromPolygon(b), eps) THEN FALSE
    ELSE \/ \E i \in 1..Len(a), j \in 1..Len(b) :
                segmentsIntersect(a[i], a[(i % Len(a)) + 1], b[j], b[(j % Len(b)) + 1], eps)
         \/ pointInPolygon(a[1], b)
         \/ pointInPolygon(b[1], a)

\* drawScratch.stackSizeState
NewDyn == [valid |-> FALSE, len |-> 0, widthScale |-> QS]

\* no frame is being drawn
HexIdle(dyn) ==
    [active |-> FALSE, total |-> 0, ci |-> 0, baseL |-> Pt(0, 0), baseR |-> Pt(0, 0),
     prevD |-> Pt(0, 0), smoothLen |-> 0, smoothWidth |-> 0, rendered |-> <<>>,
     drewAny |-> FALSE, dyn |-> dyn,
     cell |-> [tested |-> FALSE, headQuad |-> FALSE, fellBack |-> FALSE,
               accepted |-> FALSE, pts |-> <<>>, hexPts |-> <<>>]]

\* lines 1933-1947: the first frame around centre c for a section that
\* extends half px on both sides of c, and the sizes carried over
HexStart(dyn, cells, firstDir, c, half) ==
    Only({ [HexIdle(dyn) EXCEPT !.active = TRUE, !.total = cells,
                                !.baseL = pointAlong(c, n, -Max(half, IDiv(minCellWidthPx, 2))),
                                !.baseR = pointAlong(c, n, Max(half, IDiv(minCellWidthPx, 2))),
                                !.prevD = IF pointLen(firstDir) > 0 THEN firstDir ELSE Pt(QS, 0),
                                !.smoothLen = IF dyn.valid THEN dyn.len ELSE Max(PX, hexBaseLenPx),
                                !.smoothWidth = IF dyn.valid THEN dyn.widthScale ELSE QS] :
           n \in {IF pointLen(firstDir) > 0 THEN pointPerp(firstDir) ELSE Pt(0, QS)} })

\* lines 1953-1968: the direction D of the cell and the direction N of its base
HexDirs(h, rawMoveDir) ==
    Only({ Only({ [N |-> baseDir,
                   D |-> IF pointDot(pointPerp(baseDir), rawD) >= pointDot(pointPerp(baseDir), Pt(-rawD.x, -rawD.y))
                         THEN pointPerp(baseDir)
                         ELSE Pt(-pointPerp(baseDir).x, -pointPerp(baseDir).y)] :
                  baseDir \in {IF pointLen(pointSub(h.baseR, h.baseL)) > 0
                               THEN pointNormalize(pointSub(h.baseR, h.baseL))
                               ELSE IF pointLen(pointPerp(rawD)) > 0
                               THEN pointNormalize(pointPerp(rawD)) ELSE Pt(QS, 0)} }) :
           rawD \in {IF pointLen(rawMoveDir) > 0 THEN rawMoveDir ELSE h.prevD} })

\* lines 1989-2005 at quality 1: the smoothed cell length and width scale
\* for a detail need in 1/QS
HexSmoothLen(h, need) ==
    clamp(lerp(h.smoothLen, lerp(hexMaxLenPx, hexMinLenPx, need, QS), sizeLerpAlpha, QS),
          Max(PX, hexMinLenPx), Max(hexMinLenPx, IDiv(hexMaxLenPx * Max(QS, qualityCoarsenMax), QS)))
HexSmoothWidth(h, need) ==
    clamp(lerp(h.smoothWidth, lerp(maxWidthScale, minWidthScale, need, QS), widthLerpAlpha, QS),
          Max(10, minWidthScale), Max(minWidthScale, IDiv(maxWidthScale * 12, 10)))

\* lines 2007-2019: the handoff edge and the partial points of the cell
HexShape(h, dirs, len, handoffWidth) ==
    Only({ Only({ [baseL |-> h.baseL, baseR |-> h.baseR,
                   handoffL |-> handoffL, handoffR |-> handoffR,
                   partR |-> clampPointStep(lerpPoint(h.baseR, handoffR, partialEdgeShare, QS),
                                            concavityTarget,
                                            IDiv(Max(0, concavityDepth) * handoffWidth, QS)),
                   partL |-> clampPointStep(lerpPoint(h.baseL, handoffL, partialEdgeShare, QS),
                                            concavityTarget,
                                            IDiv(Max(0, concavityDepth) * handoffWidth, QS))] :
                  handoffL \in {pointAlong(handoffCenter, dirs.N, -IDiv(handoffWidth, 2))},
                  handoffR \in {pointAlong(handoffCenter, dirs.N, IDiv(handoffWidth, 2))} }) :
           handoffCenter \in {pointAlong(pointMid(h.baseL, h.baseR), dirs.D, len)},
           concavityTarget \in {pointAlong(pointMid(h.baseL, h.baseR), dirs.D,
                                           IDiv(len * concavityDepth, QS))} })

quadCell(sh) == <<sh.baseL, sh.baseR, sh.handoffR, sh.handoffL>>
hexCell(sh) == <<sh.baseL, sh.baseR, sh.partR, sh.handoffR, sh.handoffL, sh.partL>>

\* mutant: no cell is tested against the cells filled before it
HexOverlapsNone(pts, rendered) == FALSE

\* lines 2027-2033: the cell overlaps a cell filled before the last one
HexOverlapsEarlier(pts, rendered) ==
    /\ Len(rendered) > 1
    /\ \E j \in 1..(Len(rendered) - 1) : polygonsOverlap(pts, rendered[j].pts, overlapEpsilonPx)

\* lines 2021-2039: the polygon chosen for the cell and whether it may be filled
HexChoice(sh, headQuad, rendered) ==
    Only({ Only({ IF ~valid /\ ~headQuad
                  THEN [tested |-> FALSE, headQuad |-> headQuad, fellBack |-> TRUE,
                        accepted |-> isValidTrailPolygon(quadCell(sh)),
                        pts |-> quadCell(sh), hexPts |-> hexCell(sh)]
                  ELSE [tested |-> TRUE, headQuad |-> headQuad, fellBack |-> FALSE,
                        accepted |-> valid, pts |-> cellPts, hexPts |-> hexCell(sh)] :
                  valid \in {isValidTrailPolygon(cellPts)
                             /\ ~HexOverlapsEarlier(cellPts, rendered)} }) :
           cellPts \in {IF headQuad THEN quadCell(sh) ELSE hexCell(sh)} })

\* lines 2041-2058: fill the cell when valid and visible, hand over its far
\* edge; after the last cell (lines 2060-2066) remember the sizes
HexAdvance(h, dirs, len, widthScale, sh, choice, alphaPositive) ==
    Only({ [h EXCEPT !.ci = @ + 1,
                     !.active = h.ci + 1 < h.total,
                     !.baseL = sh.handoffL, !.baseR = sh.handoffR, !.prevD = dirs.D,
                     !.smoothLen = len, !.smoothWidth = widthScale,
                     !.rendered = IF filled
                                  THEN Append(@, [pts |-> choice.pts, tested |-> choice.tested])
                                  ELSE @,
                     !.drewAny = drew,
                     !.dyn = IF h.ci + 1 < h.total THEN @
                             ELSE IF drew THEN [valid |-> TRUE, len |-> len, widthScale |-> widthScale]
                             ELSE [@ EXCEPT !.valid = FALSE],
                     !.cell = [choice EXCEPT !.accepted = filled]] :
           filled \in {choice.accepted /\ alphaPositive},
           drew \in {h.drewAny \/ (choice.accepted /\ alphaPositive)} })

\* lines 1949-2058: one pass of the loop over the picked sections, for the
\* direction of the move between the two sections, the detail need of the
\* cell and whether its alpha is positive
HexCellStep(h, rawMoveDir, need, alphaPositive) ==
    Only({ Only({ HexAdvance(h, dirs, len, widthScale, sh,
                             HexChoice(sh, h.total - 1 - h.ci < Max(0, headQuadCells), h.rendered),
                             alphaPositive) :
                  sh \in {HexShape(h, dirs, len,
                                   Max(minCellWidthPx,
                                       IDiv(Max(minCellWidthPx, pointLen(pointSub(h.baseR, h.baseL)))
                                            * widthScale, QS)))} }) :
           dirs \in {HexDirs(h, rawMoveDir)},
           len \in {HexSmoothLen(h, need)},
           widthScale \in {HexSmoothWidth(h, need)} })

\* ------------------------------------------------------------------------
\* SECTION 10: draw(): the quality gates and the choice of the trail renderer
\* ------------------------------------------------------------------------
subdivideOnlyThreshold == 6800  \* CFG.performance.subdivideOnlyThreshold = 0.68
blurStartThreshold == 6600      \* CFG.performance.blurStartThreshold = 0.66
historyStartThreshold == 5000   \* CFG.performance.historyStartThreshold = 0.50
maxSubdivisionsPerFrame == 120  \* CFG.performance.maxSubdivisionsPerFrame
maxCellsPerFrame == 48          \* CFG.trail.stackHex.maxCellsPerFrame
shadowEnabled == TRUE           \* CFG.shadow.enabled
blurFactor == 10500             \* CFG.shadow.blurFactor = 1.05
stackHexEnabled == FALSE        \* CFG.trail.stackHex.enabled
minAlpha == 0                   \* CFG.trail.minAlpha
opacity == 6900                 \* CFG.opacity = 0.69

\* mutant: the history cap is cut from subdivideOnlyThreshold down and the
\* blur only from historyStartThreshold down
DrawGatesHistoryFirst(perfQuality, isIdle) ==
    Only({ [clampedQuality |-> q,
            effectiveMaxRects |-> IF q < subdivideOnlyThreshold
                                  THEN Max(8, IDiv(maxRects * q, QS)) ELSE maxRects,
            shadowOn |-> shadowEnabled /\ ~isIdle,
            shadowBase |-> Max(0, blurFactor) * 12,
            shadowBlur |-> IF ~(shadowEnabled /\ ~isIdle) THEN 0
                           ELSE IF q < historyStartThreshold
                           THEN MulDiv(Max(0, blurFactor) * 12,
                                       clamp(IDiv((q - qualityMin) * QS,
                                                  Max(1, historyStartThreshold - qualityMin)),
                                             0, QS), QS)
                           ELSE Max(0, blurFactor) * 12] :
           q \in {clamp(perfQuality, qualityMin, QS)} })

\* lines 2082-2112: the clamped quality, the sample cap and the shadow blur
\* (in 1/QS px) draw() sets up for a frame
DrawGates(perfQuality, isIdle) ==
    Only({ [clampedQuality |-> q,
            effectiveMaxRects |-> IF q < subdivideOnlyThreshold /\ q < historyStartThreshold
                                  THEN Max(8, IDiv(maxRects * q, QS)) ELSE maxRects,
            shadowOn |-> shadowEnabled /\ ~isIdle,
            shadowBase |-> Max(0, blurFactor) * 12,
            shadowBlur |-> IF ~(shadowEnabled /\ ~isIdle) THEN 0
                           ELSE IF q < subdivideOnlyThreshold /\ q < blurStartThreshold
                           THEN MulDiv(Max(0, blurFactor) * 12,
                                       clamp(IDiv((q - qualityMin) * QS,
                                                  Max(1, blurStartThreshold - qualityMin)),
                                             0, QS), QS)
                           ELSE Max(0, blurFactor) * 12] :
           q \in {clamp(perfQuality, qualityMin, QS)} })

\* the samples curr of the pairs (prev, curr) both loops over the trail
\* visit: trailStartIndex = max(1, trail.length - effectiveMaxRects + 1)
\* (lines 1900, 2133), here as positions 1..Len(tr) of curr
DrawnPairs(tr, cap) ==
    { i \in (Max(1, Len(tr) - cap + 1) + 1)..Len(tr) :
        Len(tr[i - 1].pts) >= 3 /\ Len(tr[i].pts) >= 3 }

\* clamp((1 - frac) * trailOpacity, minAlpha, 1) > 0 for frac =
\* clamp((now - t) / ttl, 0, 1)
AlphaPositive(t, now) ==
    clamp(IDiv((QS - clamp(IDiv((now - t) * QS, ttlMs), 0, QS)) * clamp(opacity, 0, QS), QS),
          minAlpha, QS) > 0

\* buildTrailSections (lines 1798-1859): the number of sections made of the
\* pairs, each pair cut into sub pieces while the budget lasts
SectionCount(tr, cap, q, sub) ==
    IF DrawnPairs(tr, cap) = {} THEN 0
    ELSE 1 + Min(Cardinality(DrawnPairs(tr, cap)) * sub,
                 Max(8, IDiv(Max(1, maxSubdivisionsPerFrame) * q, QS)))

\* lines 1922-1927: the number of sections picked with the stride
PickedCount(sections, q) ==
    Only({ Cardinality({0, sections - 1} \cup { i \in 1..(sections - 2) : i % stride = 0 }) :
           stride \in {Max(1, CeilDiv(sections - 1,
                                      Max(1, IDiv(Max(1, maxCellsPerFrame) * q, QS))))} })

\* lines 1949-2058: the loop over the picked sections, every cell with the
\* same move direction, detail need and alpha
RECURSIVE HexCells(_, _)
HexCells(h, in) ==
    IF ~h.active THEN h ELSE HexCells(HexCellStep(h, in[1], in[2], in[3]), in)

\* mutant: the frame reports a draw whenever its cell loop ran
HexReportAlways(h) == TRUE

\* lines 2060-2067: return drewAny
HexReport(h) == h.drewAny

\* drawStackedHexTrail (lines 1884-2068) for a setting of stackHex.enabled:
\* the value returned, the cells filled, and the frame left behind
drawStackedHexTrail(enabled, dyn, tr, q, cap, sub, in) ==
    IF ~enabled THEN [drew |-> FALSE, fills |-> 0, sections |-> 0, h |-> HexIdle(dyn)]
    ELSE IF SectionCount(tr, cap, q, sub) < 2 \/ PickedCount(SectionCount(tr, cap, q, sub), q) < 2
    THEN [drew |-> FALSE, fills |-> 0, sections |-> SectionCount(tr, cap, q, sub),
          h |-> HexIdle([dyn EXCEPT !.valid = FALSE])]
    ELSE Only({ [drew |-> HexReport(h), fills |-> Len(h.rendered),
                 sections |-> SectionCount(tr, cap, q, sub), h |-> h] :
                h \in {HexCells(HexStart(dyn, PickedCount(SectionCount(tr, cap, q, sub), q) - 1,
                                         Pt(QS, 0), Pt(200 * PX, 200 * PX), 7 * PX), in)} })

\* lines 2132-2206: the ribbon path; a pair issues fills when one of its
\* pieces has a positive alpha, the newest sample is always filled
RibbonPath(tr, now, cap) ==
    [pairs |-> Cardinality({ i \in DrawnPairs(tr, cap) :
                               AlphaPositive(tr[i].t, now) \/ AlphaPositive(tr[i - 1].t, now) }),
     capFill |-> Len(tr) > 0 /\ Len(tr[Len(tr)].pts) >= 3]

\* what draw() has set up and filled: nothing yet
NewDraw ==
    [n |-> 0, stackHex |-> stackHexEnabled, perfQuality |-> QS, clampedQuality |-> QS,
     effectiveMaxRects |-> maxRects, shadowOn |-> FALSE, shadowBase |-> 0, shadowBlur |-> 0,
     sections |-> 0, hexRan |-> FALSE, drewStacked |-> FALSE, hexFills |-> 0,
     ribbonRan |-> FALSE, ribbonPairs |-> 0, ribbonCap |-> FALSE]

\* draw(ctx, canvas, boxRect, ..., isIdle, ..., wallNowMs, perfQuality)
\* (lines 2073-2206): the gates, the hex path, and the ribbon path when the
\* hex path returned false
draw(d, dyn, tr, now, perfQuality, isIdle, sub, in) ==
    Only({ Only({ [drawn |-> [n |-> d.n + 1, stackHex |-> d.stackHex,
                              perfQuality |-> perfQuality,
                              clampedQuality |-> g.clampedQuality,
                              effectiveMaxRects |-> g.effectiveMaxRects,
                              shadowOn |-> g.shadowOn, shadowBase |-> g.shadowBase,
                              shadowBlur |-> g.shadowBlur,
                              sections |-> st.sections,
                              hexRan |-> st.h.ci > 0,
                              drewStacked |-> st.drew, hexFills |-> st.fills,
                              ribbonRan |-> ~st.drew,
                              ribbonPairs |-> IF st.drew THEN 0
                                              ELSE RibbonPath(tr, now, g.effectiveMaxRects).pairs,
                              ribbonCap |-> ~st.drew
                                            /\ RibbonPath(tr, now, g.effectiveMaxRects).capFill],
                   hex |-> st.h] :
                  st \in {drawStackedHexTrail(d.stackHex, dyn, tr, g.clampedQuality,
                                              g.effectiveMaxRects, sub, in)} }) :
           g \in {DrawGates(perfQuality, isIdle)} })

\* ------------------------------------------------------------------------
\* The inertial cursor (cursorInertia.js)
\* ------------------------------------------------------------------------
VS == 10000                     \* velocities and impulses are kept in 1/VS

LEVEL_MIN == 1
LEVEL_MAX == 10
IMPULSE_MIN == 3000             \* 0.30
IMPULSE_MAX == 21000            \* 2.10
TICK_MS_MIN == 14
TICK_MS_MAX == 68
DEFAULT_IMPULSE_LEVEL == 4
DEFAULT_TICK_SLOW_LEVEL == 4

initialVelocity == 11000        \* #cfg.initialVelocity = 1.1
maxVelocity == 5120000          \* #cfg.maxVelocity = 512.0
decay == 9600                   \* #cfg.decay = 0.96 (in 1/QS)
cutoff == 9900                  \* #cfg.cutoff = 0.99
maxStepPerTick == 8             \* #cfg.maxStepPerTick
suppressSelectionEvents == 512  \* #cfg.suppressSelectionEvents

\* A configured value: a number given in tenths, or something Number() does
\* not turn into a finite number ("nan": NaN or a non-numeric string,
\* "inf": an infinity), or "unset" (config.get then returns its default).
Num(tenths) == [kind |-> "num", tenths |-> tenths]
NotNum(kind) == [kind |-> kind, tenths |-> 0]
Level(level) == Num(10 * level)

\* Math.round of a number given in tenths: floor(x + 0.5)
RoundTenths(tenths) == (tenths + 5) \div 10

\* mutant: the level is rounded but not clamped
clampLevelOpen(value, fallback) ==
    IF value.kind # "num" THEN fallback ELSE RoundTenths(value.tenths)

clampLevel(value, fallback) ==
    IF value.kind # "num" THEN fallback
    ELSE Min(LEVEL_MAX, Max(LEVEL_MIN, RoundTenths(value.tenths)))

\* Number((IMPULSE_MIN + t * (IMPULSE_MAX - IMPULSE_MIN)).toFixed(2)) with
\* t = (level - LEVEL_MIN) / (LEVEL_MAX - LEVEL_MIN): rounded to hundredths
impulseFromLevel(level) ==
    (VS \div 100) * IDiv((IMPULSE_MIN * (LEVEL_MAX - LEVEL_MIN)
                             + (level - LEVEL_MIN) * (IMPULSE_MAX - IMPULSE_MIN)) * 100,
                         (LEVEL_MAX - LEVEL_MIN) * VS)

\* Math.round(TICK_MS_MIN + t * (TICK_MS_MAX - TICK_MS_MIN))
tickMsFromLevel(level) ==
    IDiv(TICK_MS_MIN * (LEVEL_MAX - LEVEL_MIN) + (level - LEVEL_MIN) * (TICK_MS_MAX - TICK_MS_MIN),
         LEVEL_MAX - LEVEL_MIN)

makeTuning(impulseLevel, tickSlowLevel) ==
    Only({ [impulseLevel |-> safeImpulseLevel, tickSlowLevel |-> safeTickSlowLevel,
            impulse |-> impulseFromLevel(safeImpulseLevel),
            tickMs |-> tickMsFromLevel(safeTickSlowLevel)] :
           safeImpulseLevel \in {clampLevel(impulseLevel, DEFAULT_IMPULSE_LEVEL)},
           safeTickSlowLevel \in {clampLevel(tickSlowLevel, DEFAULT_TICK_SLOW_LEVEL)} })

\* config.get(key, default)
ConfigGet(value, default) == IF value.kind = "unset" THEN Level(default) ELSE value

readTuningFromConfig(rawImpulse, rawTick) ==
    makeTuning(ConfigGet(rawImpulse, DEFAULT_IMPULSE_LEVEL),
               ConfigGet(rawTick, DEFAULT_TICK_SLOW_LEVEL))

\* The editor: a caret <<line, column>> in a document of DocLines + 1
\* wrapped lines of DocCols columns; cursorMove stops at the edges.
DocLines == 4
DocCols == 24
CaretHome == <<2, 12>>
NoSig == <<-1, -1>>             \* expectedSig = null

CaretAfter(caret, dir, step) ==
    IF dir = "up" THEN <<Max(0, caret[1] - step), caret[2]>>
    ELSE IF dir = "down" THEN <<Min(DocLines, caret[1] + step), caret[2]>>
    ELSE IF dir = "left" THEN <<caret[1], Max(0, caret[2] - step)>>
    ELSE <<caret[1], Min(DocCols, caret[2] + step)>>

\* #state of a new InertiaCursorController; dir "none" is null
NewState ==
    [running |-> FALSE, dir |-> "none", velocity |-> 0, timer |-> FALSE,
     expectedSig |-> NoSig, suppressSelEvents |-> 0, selectMode |-> FALSE,
     firstTickPending |-> FALSE]

NoMove == [kind |-> "none", dir |-> "none", step |-> 0, select |-> FALSE,
           v |-> 0, forced |-> FALSE]
NoRun == [moves |-> 0, forced |-> 0, firstStep |-> 0]

\* The controller with its surroundings: #cfg (the two tuned fields), #state,
\* currentTuning, the configured values it was made from, whether there is
\* an active text editor, its caret, the
\* cursorMove commands not yet resolved, the intervals set and not cleared
\* and the period of the one set last, and history: the moves issued, the
\* last one, those of the run in progress, what the last tick did, the
\* last operation with the controller as it was before it.
NewController ==
    [cfg |-> [tickMs |-> tickMsFromLevel(DEFAULT_TICK_SLOW_LEVEL),
              impulse |-> impulseFromLevel(DEFAULT_IMPULSE_LEVEL)],
     st |-> NewState,
     tuning |-> makeTuning(Level(DEFAULT_IMPULSE_LEVEL), Level(DEFAULT_TICK_SLOW_LEVEL)),
     raw |-> <<NotNum("unset"), NotNum("unset")>>,
     active |-> TRUE, gen |-> 0,
     editor |-> TRUE, caret |-> CaretHome, inflight |-> <<>>,
     liveTimers |-> 0, timerMs |-> 0, timersSet |-> 0,
     moves |-> 0, last |-> NoMove, run |-> NoRun, runs |-> 0, tick |-> "none",
     events |-> 0,
     op |-> [name |-> "init", dir |-> "none", st |-> NewState, moves |-> 0,
             impulse |-> 0, editor |-> TRUE, timersSet |-> 0, inflight |-> <<>>]]

selectionSig(s) == s.caret

stop(s) ==
    [s EXCEPT !.st.running = FALSE, !.st.dir = "none", !.st.velocity = 0,
              !.st.expectedSig = NoSig, !.st.firstTickPending = FALSE,
              !.st.timer = FALSE,
              !.liveTimers = IF s.st.timer THEN @ - 1 ELSE @]

\* mutant: the interval set before is not cleared
restartTimerLeaking(s) ==
    [s EXCEPT !.st.timer = TRUE,
              !.liveTimers = @ + 1,
              !.timerMs = s.cfg.tickMs,
              !.timersSet = @ + 1]

\* #restartTimer()
restartTimer(s) ==
    [s EXCEPT !.st.timer = TRUE,
              !.liveTimers = (IF s.st.timer THEN @ - 1 ELSE @) + 1,
              !.timerMs = s.cfg.tickMs,
              !.timersSet = @ + 1]

\* Math.round(v) of a velocity
RoundV(v) == (v + VS \div 2) \div VS

stepFromVelocity(v) == Max(1, Min(maxStepPerTick, RoundV(v)))

\* moveCursor(dir, step, select) up to the await: the command is in flight
\* (run is the number of the run started last when it was issued)
moveCursor(s, kind, dir, step, forced) ==
    Only({ [s EXCEPT !.inflight = Append(@, [kind |-> kind, dir |-> dir, step |-> step,
                                             run |-> s.runs, gen |-> s.gen,
                                             applied |-> FALSE]),
                     !.moves = @ + 1,
                     !.last = m] :
           m \in {[kind |-> kind, dir |-> dir, step |-> step, select |-> s.st.selectMode,
                   v |-> s.st.velocity, forced |-> forced]} })

\* mutant: every tick of a run forces the step 2
tickOnceForcing(s) ==
    IF ~s.editor \/ ~s.st.running \/ s.st.dir = "none" THEN [stop(s) EXCEPT !.tick = "stop"]
    ELSE IF s.st.velocity < cutoff THEN [stop(s) EXCEPT !.tick = "stop"]
    ELSE Only({ [moveCursor([s EXCEPT !.st.suppressSelEvents = suppressSelectionEvents],
                            "tick", s.st.dir, 2, TRUE)
                    EXCEPT !.tick = "move",
                           !.run = [moves |-> @.moves + 1, forced |-> @.forced + 1,
                                    firstStep |-> IF @.moves = 0 THEN 2 ELSE @.firstStep]] :
                x \in {0} })

\* #tickOnce up to its await
tickOnce(s) ==
    IF ~s.editor \/ ~s.st.running \/ s.st.dir = "none" THEN [stop(s) EXCEPT !.tick = "stop"]
    ELSE IF s.st.velocity < cutoff THEN [stop(s) EXCEPT !.tick = "stop"]
    ELSE Only({ [moveCursor([s EXCEPT !.st.firstTickPending = FALSE,
                                      !.st.suppressSelEvents = suppressSelectionEvents],
                            "tick", s.st.dir, step, s.st.firstTickPending)
                    EXCEPT !.tick = "move",
                           !.run = [moves |-> @.moves + 1,
                                    forced |-> @.forced + (IF s.st.firstTickPending THEN 1 ELSE 0),
                                    firstStep |-> IF @.moves = 0 THEN step ELSE @.firstStep]] :
                step \in {IF s.st.firstTickPending THEN 2
                          ELSE stepFromVelocity(s.st.velocity)} })

\* mutant: the velocity is not decayed after a move
tickResumedKeeping(s) ==
    [s EXCEPT !.st.expectedSig = selectionSig(s)]

\* #tickOnce after its await
tickResumed(s) ==
    [s EXCEPT !.st.expectedSig = selectionSig(s),
              !.st.velocity = MulDiv(@, decay, QS)]

\* mutant: a direction switch takes a tenth of the velocity, with no floor
impulseSwitchUnfloored(s, dir) ==
    IF ~s.editor THEN s
    ELSE IF ~s.st.running
    THEN restartTimer(tickOnce([s EXCEPT !.st.running = TRUE, !.st.dir = dir,
                                         !.st.velocity = initialVelocity,
                                         !.st.expectedSig = selectionSig(s),
                                         !.st.firstTickPending = TRUE,
                                         !.run = NoRun, !.runs = @ + 1]))
    ELSE IF s.st.dir # dir
    THEN [s EXCEPT !.st.dir = dir, !.st.velocity = IDiv(@, 10)]
    ELSE [s EXCEPT !.st.velocity = Min(maxVelocity, @ + s.cfg.impulse)]

\* mutant: a same-direction impulse is added without the cap
impulseUncapped(s, dir) ==
    IF ~s.editor THEN s
    ELSE IF ~s.st.running
    THEN restartTimer(tickOnce([s EXCEPT !.st.running = TRUE, !.st.dir = dir,
                                         !.st.velocity = initialVelocity,
                                         !.st.expectedSig = selectionSig(s),
                                         !.st.firstTickPending = TRUE,
                                         !.run = NoRun, !.runs = @ + 1]))
    ELSE IF s.st.dir # dir
    THEN [s EXCEPT !.st.dir = dir,
                   !.st.velocity = Max(initialVelocity, IDiv(@, 10))]
    ELSE [s EXCEPT !.st.velocity = @ + s.cfg.impulse]

impulse(s, dir) ==
    IF ~s.editor THEN s
    ELSE IF ~s.st.running
    THEN restartTimer(tickOnce([s EXCEPT !.st.running = TRUE, !.st.dir = dir,
                                         !.st.velocity = initialVelocity,
                                         !.st.expectedSig = selectionSig(s),
                                         !.st.firstTickPending = TRUE,
                                         !.run = NoRun, !.runs = @ + 1]))
    ELSE IF s.st.dir # dir
    THEN [s EXCEPT !.st.dir = dir,
                   !.st.velocity = Max(initialVelocity, IDiv(@, 10))]
    ELSE [s EXCEPT !.st.velocity = Min(maxVelocity, @ + s.cfg.impulse)]

RECURSIVE ImpulseTimes(_, _, _)
\* k impulses in a row: the first half of them, then the rest
ImpulseTimes(s, dir, k) ==
    IF k = 0 THEN s
    ELSE IF k = 1 THEN impulse(s, dir)
    ELSE Only({ ImpulseTimes(half, dir, k - k \div 2) : half \in {ImpulseTimes(s, dir, k \div 2)} })

\* applyUserTuningFromConfig with a controller: readTuningFromConfig, then
\* applyResolvedTuning, then InertiaCursorController.applyTuning
applyTuning(s, tuning) ==
    Only({ Only({ [(IF tickChanged /\ s.st.running THEN restartTimer(t) ELSE t)
                      EXCEPT !.tuning = next] :
                  tickChanged \in {s.cfg.tickMs # next.tickMs},
                  t \in {[s EXCEPT !.cfg.tickMs = next.tickMs,
                                   !.cfg.impulse = next.impulse]} }) :
           next \in {makeTuning(Level(tuning.impulseLevel), Level(tuning.tickSlowLevel))} })

\* applyResolvedTuning(tuning): through the controller if there is one
applyResolvedTuning(s, tuning) ==
    IF s.active THEN applyTuning(s, tuning)
    ELSE [s EXCEPT !.tuning = makeTuning(Level(tuning.impulseLevel), Level(tuning.tickSlowLevel))]

applyUserTuningFromConfig(s, rawImpulse, rawTick) ==
    applyResolvedTuning(s, readTuningFromConfig(rawImpulse, rawTick))

\* inertia.activate(): a new controller, tuned from the configuration, its listener
\* and commands registered; nothing when already active
inertiaActivate(s) ==
    IF s.active THEN s
    ELSE applyUserTuningFromConfig([s EXCEPT !.active = TRUE, !.gen = @ + 1,
                                             !.st = NewState, !.cfg = NewController.cfg],
                                   s.raw[1], s.raw[2])

\* inertia.deactivate(): stop the controller, dispose of listener and commands,
\* drop the controller
inertiaDeactivate(s) == IF s.active THEN [stop(s) EXCEPT !.active = FALSE] ELSE s

\* mutant: the single-step command goes through the inertia controller
cursorOnceAsImpulse(s, dir) == impulse(s, dir)

\* the cursorOnce.* commands
cursorOnce(s, dir) == moveCursor(s, "once", dir, 1, FALSE)

toggleSelectMode(s) == [s EXCEPT !.st.selectMode = ~@]

\* the listener of wire(), for an event of the active editor
onDidChangeTextEditorSelection(s) ==
    IF ~s.st.running THEN s
    ELSE IF ~s.editor THEN s
    ELSE IF s.st.suppressSelEvents > 0 THEN [s EXCEPT !.st.suppressSelEvents = @ - 1]
    ELSE IF selectionSig(s) # s.st.expectedSig THEN stop(s)
    ELSE s

\* the operation just carried out, and the controller as it was before it
WithOp(s, name, dir, before) ==
    [s EXCEPT !.events = before.events + 1,
              !.op = [name |-> name, dir |-> dir, st |-> before.st, moves |-> before.moves,
                      impulse |-> before.cfg.impulse, editor |-> before.editor,
                      timersSet |-> before.timersSet, inflight |-> before.inflight]]

\* ------------------------------------------------------------------------
\* Operations
\* ------------------------------------------------------------------------
vars == <<trail, lastPushed, wall, calls, op, loop, perfEnabled, windowFlag, trailActive,
          canvasParent, styleAttached, rafPending, frame, hist, osc, hex, canon, inert,
          snap, drawn>>

storeVars == <<trail, lastPushed, op, calls>>
loopVars == <<loop, perfEnabled, windowFlag, trailActive, canvasParent, styleAttached,
              rafPending, frame, hist>>
unitVars == <<osc, hex, canon, inert, snap, drawn>>

\* new UnderDampedScalar(omega, zeta), not kicked and not stepped yet
NewOsc == [b |-> Oscillator(0, 0), kick |-> 0, steps |-> 0, restBefore |-> FALSE]
\* a polygon and a reference (<<>> for null) before canonicalizePolygon is
\* called on them; c is the result of the first call, cc of the second
CanonOf(poly, ref) == [poly |-> poly, ref |-> ref, c |-> <<>>, cc |-> <<>>, stage |-> "drawn"]
NewCanon == CanonOf(<<>>, <<>>)
UnitsInit ==
    /\ osc = NewOsc /\ hex = HexIdle(NewDyn) /\ canon = NewCanon /\ inert = NewController
    /\ snap = NewSnap /\ drawn = NewDraw

OpRecord(kind, outcome, poly, stamp, quality, metric, segments, entries, tr, lp) ==
    [kind |-> kind, outcome |-> outcome, poly |-> poly, stamp |-> stamp,
     quality |-> quality, metric |-> metric, segments |-> segments,
     entries |-> entries, trailBefore |-> tr, lastBefore |-> lp]

pushTrailPolygon(poly, targetPoint, stampMs, perfQuality) ==
    \E r \in { PushResult(trail, lastPushed, poly, targetPoint, stampMs, perfQuality) } :
        /\ trail' = r.trail
        /\ lastPushed' = r.lastPushed
        /\ calls' = calls + 1
        /\ op' = OpRecord("push", r.outcome, poly, stampMs, perfQuality, r.metric,
                          r.segments, r.entries, trail, lastPushed)

pruneTrail(now) ==
    /\ trail' = PruneResult(trail, now)
    /\ lastPushed' = lastPushed
    /\ op' = OpRecord("prune", "", <<>>, now, 0, 0, 0, <<>>, trail, lastPushed)

\* the state after installTrailInDom() has run (activate), at time 0
Installed(enabled) ==
    /\ trail = <<>>
    /\ lastPushed = NullSample
    /\ wall = 0
    /\ calls = 0
    /\ op = OpRecord("init", "", <<>>, 0, 0, 0, 0, <<>>, <<>>, NullSample)
    /\ loop = NewLoop(0)
    /\ perfEnabled = enabled
    /\ windowFlag = TRUE
    /\ trailActive = TRUE
    /\ canvasParent = "body"
    /\ styleAttached = TRUE
    /\ rafPending = 1
    /\ frame = Frame("init", FALSE, 0, FALSE, NewLoop(0), FALSE, Null, FALSE, 0, 0)
    /\ hist = [ticks |-> 0, restSince |-> 0, cleaned |-> FALSE, ticksAfterCleanup |-> 0,
               still |-> 0, stillMs |-> 0, hop |-> -1]
    /\ UnitsInit

\* the history after a tick: still counts the ticks in a row that stepped
\* the corners (cursor.step) toward an unchanged target, stillMs adds up
\* their dt
HistAfter(h, f, frameNowMs, targetChanged) ==
    [h EXCEPT !.ticks = @ + 1,
              !.restSince = IF f.moving THEN frameNowMs ELSE @,
              !.ticksAfterCleanup = IF h.cleaned THEN @ + 1 ELSE @,
              !.still = IF targetChanged THEN 0
                        ELSE IF f.path = "drawn" THEN @ + 1 ELSE @,
              !.stillMs = IF targetChanged THEN 0
                          ELSE IF f.path = "drawn" THEN @ + f.dtMs ELSE @]

\* the history of caret hops: hop is the distance from the target centre
\* before the tick to the anchor centre after it, when the tick saw the
\* centre change
HopAfter(h, L0, L1) ==
    IF /\ L1.lastAnchorCenter.some /\ L1.lastAnchorCenter # L0.lastAnchorCenter
       /\ didCenterMove(L0.lastAnchorCenter, L1.lastAnchorCenter.val, centerMoveEpsilonPx)
    THEN [h EXCEPT !.hop = hypot(L1.lastAnchorCenter.val.cx - L0.cursor.last.cx,
                                 L1.lastAnchorCenter.val.cy - L0.cursor.last.cy)]
    ELSE h

\* the browser runs a scheduled rafLoop callback, gap ms after the
\* previous frame; performance.now() and Date.now() advance together
Tick(gap, view, throwAt) ==
    /\ rafPending > 0
    /\ \E r \in { rafLoop(loop, perfEnabled, trail, lastPushed, canvasParent,
                          wall + gap, view, throwAt) } :
        /\ loop' = r.loop
        /\ trail' = r.trail
        /\ lastPushed' = r.lastPushed
        /\ canvasParent' = r.canvasParent
        /\ frame' = r.frame
        /\ rafPending' = rafPending - 1 + r.frame.scheduledInTry + r.frame.scheduledAfterTry
        /\ calls' = IF r.frame.push.some THEN calls + 1 ELSE calls
        /\ op' = IF r.frame.pruned
                 THEN OpRecord("prune", "", <<>>, wall + gap, 0, 0, 0, <<>>,
                               IF r.frame.push.some THEN r.frame.push.val.trail ELSE trail,
                               r.lastPushed)
                 ELSE op
        /\ hist' = HopAfter(HistAfter(hist, r.frame, wall + gap,
                                      r.loop.cursor.target # loop.cursor.target),
                            loop, r.loop)
    /\ wall' = wall + gap
    /\ UNCHANGED <<perfEnabled, windowFlag, trailActive, styleAttached>>
    /\ UNCHANGED unitVars

\* deactivate(): runs window.__neovideCursorCleanup once
deactivate ==
    /\ trailActive
    /\ windowFlag' = FALSE
    /\ trail' = <<>>
    /\ lastPushed' = NullSample
    /\ canvasParent' = "none"
    /\ styleAttached' = FALSE
    /\ trailActive' = FALSE
    /\ hist' = [hist EXCEPT !.cleaned = TRUE]
    /\ UNCHANGED <<wall, calls, op, loop, perfEnabled, rafPending, frame>>
    /\ UNCHANGED unitVars

\* ------------------------------------------------------------------------
\* Specification of the store alone: any sequence of pushes and prunes
\* ------------------------------------------------------------------------
MaxCalls == 3           \* pushTrailPolygon calls in one behaviour of SpecStore

\* a rectangle in the corner layout (0) top-left, (1) top-right,
\* (2) bottom-right, (3) bottom-left
RectPoly(cx, cy, hw, hh) ==
    <<Pt(cx - hw, cy - hh), Pt(cx + hw, cy - hh), Pt(cx + hw, cy + hh), Pt(cx - hw, cy + hh)>>

Centered(poly) == LET c == polygonCenter(poly) IN Target(c.x, c.y)

\* the calls offered: <<polygon, target point, quality>>
InputCalls ==
    { <<RectPoly(0, 0, 900, 1100), NoTarget, QS>>,                  \* caret box
      <<RectPoly(5, 0, 900, 1100), Target(5, 0), QS>>,              \* 0.05 px jitter
      <<RectPoly(20000, 0, 900, 1100), Target(20000, 0), QS>>,      \* 200 px jump
      <<RectPoly(3000, 4000, 900, 1100), Target(3000, 4000), 3800>>, \* hop, low quality
      <<<<Pt(0, 0), Pt(4000, 2000), Pt(3000, 0), Pt(1000, 2000)>>,
        Target(3800, 1900), QS>>,                                   \* parallelogram given as a bow-tie
      <<<<Pt(0, 0), Pt(1000, 0), Pt(2000, 0), Pt(3000, 0)>>, NoTarget, QS>>,  \* collinear
      <<<<Pt(0, 0), Pt(1000, 0)>>, NoTarget, QS>> }                 \* fewer than 3 points

\* the instants at which the store is used: a sample of t = 1 is exactly
\* ttlMs old at 257, a sample of t = 0 is older
WallTimes == { 0, 1, ttlMs + 1 }

InitStore == Installed(TRUE)

PushCall ==
    /\ calls < MaxCalls
    /\ \E c \in InputCalls : pushTrailPolygon(c[1], c[2], wall, c[3])
    /\ UNCHANGED wall
    /\ UNCHANGED loopVars /\ UNCHANGED unitVars

PruneCall ==
    /\ pruneTrail(wall)
    /\ UNCHANGED <<wall, calls>>
    /\ UNCHANGED loopVars /\ UNCHANGED unitVars

AdvanceWall ==
    /\ \E w \in WallTimes : w > wall /\ wall' = w
    /\ UNCHANGED storeVars
    /\ UNCHANGED loopVars /\ UNCHANGED unitVars

NextStore == PushCall \/ PruneCall \/ AdvanceWall

SpecStore == InitStore /\ [][NextStore]_vars

\* ------------------------------------------------------------------------
\* Specification of long push sequences: the caret hops between two places
\* ------------------------------------------------------------------------
MaxCapCalls == 9        \* pushTrailPolygon calls in one behaviour of SpecCap

CapCalls ==
    { <<RectPoly(0, 0, 900, 1100), Target(0, 0), QS>>,
      <<RectPoly(3000, 4000, 900, 1100), Target(3000, 4000), QS>> }

CapPush ==
    /\ calls < MaxCapCalls
    /\ \E c \in CapCalls : pushTrailPolygon(c[1], c[2], wall, c[3])
    /\ UNCHANGED wall
    /\ UNCHANGED loopVars /\ UNCHANGED unitVars

SpecCap == InitStore /\ [][CapPush]_vars

\* ------------------------------------------------------------------------
\* Specification of the tick loop: frames of any kind, and deactivation
\* ------------------------------------------------------------------------
MaxTicks == 3           \* executions of rafLoop in one behaviour of SpecLoop

Absent == View("absent", 0, 0)
CaretA == View("shown", 100 * PX, 100 * PX)
CaretB == View("shown", 300 * PX, 100 * PX)     \* 200 px to the right of CaretA

\* the frames offered: <<ms since the previous frame, what the document
\* shows, where a DOM call throws>>
TickInputs ==
    { <<16, CaretA, "none">>,       \* a 60 Hz frame with the caret at A
      <<50, CaretB, "none">>,       \* a slow frame with the caret at B
      <<300, CaretA, "none">>,      \* a stalled frame
      <<16, Absent, "none">>,       \* no caret, within the hide delay
      <<300, Absent, "none">>,      \* no caret for long: the canvas is hidden
      <<300, Absent, "canvas">>,    \* clearCanvas throws
      <<50, CaretB, "canvas">>,     \* draw throws
      <<16, View("collapsed", 0, 0), "attach">>,
      <<16, CaretA, "poll">> }

InitLoop == \E enabled \in BOOLEAN : Installed(enabled)

TickCall ==
    /\ hist.ticks < MaxTicks
    /\ \E in \in TickInputs : Tick(in[1], in[2], in[3])

NextLoop == TickCall \/ deactivate

SpecLoop == InitLoop /\ [][NextLoop]_vars

\* ------------------------------------------------------------------------
\* Specification of caret hops of typing size and larger, with
\* CFG.trail.minMoveCharsForTrail as shipped and set to 0
\* ------------------------------------------------------------------------
MaxHopTicks == 4        \* executions of rafLoop in one behaviour of SpecHop

\* the caret at A, 8 px (less than a character) to its right, and at B
CaretNear == View("shown", 108 * PX, 100 * PX)
HopViews == { CaretA, CaretNear, CaretB }

InitHop ==
    /\ trail = <<>> /\ lastPushed = NullSample /\ wall = 0 /\ calls = 0
    /\ op = OpRecord("init", "", <<>>, 0, 0, 0, 0, <<>>, <<>>, NullSample)
    /\ \E minChars \in {0, minMoveCharsForTrail} :
          loop = [NewLoop(0) EXCEPT !.minMoveChars = minChars]
    /\ perfEnabled = TRUE /\ windowFlag = TRUE /\ trailActive = TRUE
    /\ canvasParent = "body" /\ styleAttached = TRUE /\ rafPending = 1
    /\ frame = Frame("init", FALSE, 0, FALSE, NewLoop(0), FALSE, Null, FALSE, 0, 0)
    /\ hist = [ticks |-> 0, restSince |-> 0, cleaned |-> FALSE, ticksAfterCleanup |-> 0,
               still |-> 0, stillMs |-> 0, hop |-> -1]
    /\ UnitsInit

HopTick ==
    /\ hist.ticks < MaxHopTicks
    /\ \E view \in HopViews : Tick(16, view, "none")

SpecHop == InitHop /\ [][HopTick]_vars

\* ------------------------------------------------------------------------
\* Specification of one caret hop: the caret appears at A, is at B from the
\* second frame on and stays there; frames are slow or stalled
\* ------------------------------------------------------------------------
MaxSettleTicks == 20    \* executions of rafLoop in one behaviour of SpecSettle

SettleGaps == { 50, 300 }

SettleTick ==
    /\ hist.ticks < MaxSettleTicks
    /\ \E gap \in SettleGaps :
          Tick(gap, IF hist.ticks = 0 THEN CaretA ELSE CaretB, "none")

SpecSettle == Installed(TRUE) /\ [][SettleTick]_vars

\* ------------------------------------------------------------------------
\* Specification of the oscillator alone: one kick, then steps of 1/60 s
\* ------------------------------------------------------------------------
MaxBounceSteps == 500   \* steps of the oscillator in one behaviour of SpecBounce

\* impulses: 5, CFG.overshoot.maxKick, the kick of a 1 px move, a tiny one
Impulses == { 5 * OS, maxKick * (OS \div QS), kickPerPx * (OS \div QS), OS \div 100 }

OscKick(amount) ==
    /\ osc.kick = 0
    /\ osc' = [b |-> BounceKick(osc.b, amount), kick |-> amount, steps |-> 0,
               restBefore |-> FALSE]
    /\ UNCHANGED <<wall, hex, canon, inert, snap, drawn>> /\ UNCHANGED storeVars /\ UNCHANGED loopVars

OscStep ==
    /\ osc.steps < MaxBounceSteps
    /\ osc' = [osc EXCEPT !.b = BounceStepBy(@, 1, 60),
                          !.steps = @ + 1,
                          !.restBefore = (osc.b = Oscillator(0, 0))]
    /\ UNCHANGED <<wall, hex, canon, inert, snap, drawn>> /\ UNCHANGED storeVars /\ UNCHANGED loopVars

NextBounce == (\E amount \in Impulses : OscKick(amount)) \/ OscStep

SpecBounce == Installed(TRUE) /\ [][NextBounce]_vars

\* ------------------------------------------------------------------------
\* Specification of the corners coming to rest: the caret appears at A,
\* hops once and stays; frames come at a steady 16 ms or 50 ms
\* ------------------------------------------------------------------------
MaxRestTicks == 70      \* executions of rafLoop in one behaviour of SpecRest

RestGaps == { 16, 50 }

\* where the caret hops to from A = (100, 100): 30 px right, 200 px right,
\* 250 px right and 200 px down
RestHops == { View("shown", 130 * PX, 100 * PX), CaretB,
              View("shown", 350 * PX, 300 * PX) }

RestTick ==
    /\ hist.ticks < MaxRestTicks
    /\ \/ /\ hist.ticks = 0
          /\ \E gap \in RestGaps : Tick(gap, CaretA, "none")
       \/ /\ hist.ticks = 1
          /\ \E hop \in RestHops : Tick(frame.dtMs, hop, "none")
       \/ /\ hist.ticks > 1
          /\ Tick(frame.dtMs,
                  View("shown", loop.lastAnchorCenter.val.cx, loop.lastAnchorCenter.val.cy),
                  "none")

SpecRest == Installed(TRUE) /\ [][RestTick]_vars

\* ------------------------------------------------------------------------
\* Specification of the stacked-hex path: one frame of drawStackedHexTrail
\* with CFG.trail.stackHex.enabled, cell by cell
\* ------------------------------------------------------------------------
MaxHexCells == 5        \* cells of the frame drawn in one behaviour of SpecHex

\* the sizes remembered from the frame before: none, or a long wide cell
HexDyns == { NewDyn, [valid |-> TRUE, len |-> hexMaxLenPx, widthScale |-> maxWidthScale] }

\* per cell: the trail goes on, the trail goes on with full detail need,
\* the trail turns back, the cell has faded to alpha 0
HexCellInputs ==
    { <<Pt(QS, 0), 0, TRUE>>, <<Pt(QS, 0), QS, TRUE>>, <<Pt(-QS, 0), 0, TRUE>>,
      <<Pt(QS, 0), 0, FALSE>> }

InitHex ==
    /\ trail = <<>> /\ lastPushed = NullSample /\ wall = 0 /\ calls = 0
    /\ op = OpRecord("init", "", <<>>, 0, 0, 0, 0, <<>>, <<>>, NullSample)
    /\ loop = NewLoop(0) /\ perfEnabled = TRUE /\ windowFlag = TRUE /\ trailActive = TRUE
    /\ canvasParent = "body" /\ styleAttached = TRUE /\ rafPending = 1
    /\ frame = Frame("init", FALSE, 0, FALSE, NewLoop(0), FALSE, Null, FALSE, 0, 0)
    /\ hist = [ticks |-> 0, restSince |-> 0, cleaned |-> FALSE, ticksAfterCleanup |-> 0,
               still |-> 0, stillMs |-> 0, hop |-> -1]
    /\ osc = NewOsc
    /\ \E dyn \in HexDyns : hex = HexIdle(dyn)
    /\ canon = NewCanon /\ inert = NewController /\ snap = NewSnap /\ drawn = NewDraw

\* drawStackedHexTrail finds fewer than two sections (lines 1917-1920)
HexNothing ==
    /\ ~hex.active /\ hex.ci = 0
    /\ hex' = HexIdle([hex.dyn EXCEPT !.valid = FALSE])
    /\ UNCHANGED <<wall, osc, canon, inert, snap, drawn>> /\ UNCHANGED storeVars /\ UNCHANGED loopVars

\* drawStackedHexTrail picks cells + 1 sections, the first move to the right
\* from (200, 200), the first section 14 px wide
HexBegin(cells) ==
    /\ ~hex.active /\ hex.ci = 0
    /\ hex' = HexStart(hex.dyn, cells, Pt(QS, 0), Pt(200 * PX, 200 * PX), 7 * PX)
    /\ UNCHANGED <<wall, osc, canon, inert, snap, drawn>> /\ UNCHANGED storeVars /\ UNCHANGED loopVars

HexCell(rawMoveDir, need, alphaPositive) ==
    /\ hex.active
    /\ hex' = HexCellStep(hex, rawMoveDir, need, alphaPositive)
    /\ UNCHANGED <<wall, osc, canon, inert, snap, drawn>> /\ UNCHANGED storeVars /\ UNCHANGED loopVars

NextHex ==
    \/ HexNothing
    \/ \E cells \in {2, MaxHexCells} : HexBegin(cells)
    \/ \E in \in HexCellInputs : HexCell(in[1], in[2], in[3])

SpecHex == InitHex /\ [][NextHex]_vars

\* ------------------------------------------------------------------------
\* Specification of canonicalization: a polygon and a reference are drawn,
\* canonicalizePolygon is applied, and applied again to its own result
\* ------------------------------------------------------------------------
MaxCanonLen == 4        \* vertices of the polygons drawn in SpecCanon

\* the corners of a 10 px square, its centre, and a point off the axes
CanonPoints == { Pt(0, 0), Pt(10 * PX, 0), Pt(10 * PX, 10 * PX), Pt(0, 10 * PX),
                 Pt(5 * PX, 5 * PX), Pt(3 * PX, 7 * PX) }
CanonPolys == UNION { [1..n -> CanonPoints] : n \in 3..MaxCanonLen }

\* null, triangles of either winding, a square starting at its far corner,
\* a bow-tie
CanonRefs ==
    { <<>>,
      <<Pt(0, 0), Pt(10 * PX, 0), Pt(0, 10 * PX)>>,
      <<Pt(0, 10 * PX), Pt(10 * PX, 0), Pt(0, 0)>>,
      <<Pt(10 * PX, 10 * PX), Pt(10 * PX, 0), Pt(0, 0), Pt(0, 10 * PX)>>,
      <<Pt(0, 0), Pt(10 * PX, 10 * PX), Pt(10 * PX, 0), Pt(0, 10 * PX)>> }

InitCanon ==
    /\ trail = <<>> /\ lastPushed = NullSample /\ wall = 0 /\ calls = 0
    /\ op = OpRecord("init", "", <<>>, 0, 0, 0, 0, <<>>, <<>>, NullSample)
    /\ loop = NewLoop(0) /\ perfEnabled = TRUE /\ windowFlag = TRUE /\ trailActive = TRUE
    /\ canvasParent = "body" /\ styleAttached = TRUE /\ rafPending = 1
    /\ frame = Frame("init", FALSE, 0, FALSE, NewLoop(0), FALSE, Null, FALSE, 0, 0)
    /\ hist = [ticks |-> 0, restSince |-> 0, cleaned |-> FALSE, ticksAfterCleanup |-> 0,
               still |-> 0, stillMs |-> 0, hop |-> -1]
    /\ osc = NewOsc /\ hex = HexIdle(NewDyn) /\ inert = NewController
    /\ snap = NewSnap /\ drawn = NewDraw
    /\ \E poly \in CanonPolys, ref \in CanonRefs : canon = CanonOf(poly, ref)

\* C = canonicalizePolygon(P, ref)
Canonicalize ==
    /\ canon.stage = "drawn"
    /\ canon' = [canon EXCEPT !.c = canonicalizePolygon(canon.poly, canon.ref),
                              !.stage = "once"]
    /\ UNCHANGED <<wall, osc, hex, inert, snap, drawn>> /\ UNCHANGED storeVars /\ UNCHANGED loopVars

\* canonicalizePolygon(C, C)
Recanonicalize ==
    /\ canon.stage = "once"
    /\ canon' = [canon EXCEPT !.cc = canonicalizePolygon(canon.c, canon.c),
                              !.stage = "twice"]
    /\ UNCHANGED <<wall, osc, hex, inert, snap, drawn>> /\ UNCHANGED storeVars /\ UNCHANGED loopVars

NextCanon == Canonicalize \/ Recanonicalize

SpecCanon == InitCanon /\ [][NextCanon]_vars

\* ------------------------------------------------------------------------
\* One corner followed through a few frames with hard-snap switched on
\* ------------------------------------------------------------------------
MaxSnapUpdates == 3     \* updates of the corner in one behaviour of SpecSnap

\* the caret boxes the corner is sent to: 8 x 18 px around three centres
SnapTargets ==
    { [cx |-> c[1] * PX, cy |-> c[2] * PX, w |-> 8 * PX, h |-> 18 * PX] :
      c \in { <<200, 200>>, <<220, 200>>, <<200, 215>> } }

InitSnap ==
    /\ trail = <<>> /\ lastPushed = NullSample /\ wall = 0 /\ calls = 0
    /\ op = OpRecord("init", "", <<>>, 0, 0, 0, 0, <<>>, <<>>, NullSample)
    /\ loop = NewLoop(0) /\ perfEnabled = TRUE /\ windowFlag = TRUE /\ trailActive = TRUE
    /\ canvasParent = "body" /\ styleAttached = TRUE /\ rafPending = 1
    /\ frame = Frame("init", FALSE, 0, FALSE, NewLoop(0), FALSE, Null, FALSE, 0, 0)
    /\ hist = [ticks |-> 0, restSince |-> 0, cleaned |-> FALSE, ticksAfterCleanup |-> 0,
               still |-> 0, stillMs |-> 0, hop |-> -1]
    /\ osc = NewOsc /\ hex = HexIdle(NewDyn) /\ canon = NewCanon /\ inert = NewController
    /\ snap = NewSnap /\ drawn = NewDraw

\* one frame of 16 ms: the corner of the given rank follows the target
SnapUpdate(target, rank) ==
    /\ snap.n < MaxSnapUpdates
    /\ snap' = SnapUpdated(snap, 16, target, rank)
    /\ UNCHANGED <<wall, osc, hex, canon, inert, drawn>>
    /\ UNCHANGED storeVars /\ UNCHANGED loopVars

NextSnap == \E target \in SnapTargets, rank \in 0..3 : SnapUpdate(target, rank)

SpecSnap == InitSnap /\ [][NextSnap]_vars

\* ------------------------------------------------------------------------
\* Frames drawn by draw() over a trail buffer
\* ------------------------------------------------------------------------
MaxDraws == 1           \* calls of draw() in one behaviour of SpecDraw

\* the trail buffers drawn: none, one, two and three samples pushed at 0,
\* 100 and 200 ms, 10 px apart
DrawSamples ==
    << Sample(0, Pt(200 * PX, 200 * PX), RectPoly(200 * PX, 200 * PX, 4 * PX, 9 * PX)),
       Sample(100, Pt(210 * PX, 200 * PX), RectPoly(210 * PX, 200 * PX, 4 * PX, 9 * PX)),
       Sample(200, Pt(220 * PX, 200 * PX), RectPoly(220 * PX, 200 * PX, 4 * PX, 9 * PX)) >>
DrawTrails == { SubSeq(DrawSamples, 1, k) : k \in 0..3 }

\* Date.now() of the frames: the oldest sample is 200 ms old, or just ttlMs
DrawTimes == { 200, ttlMs }

\* perfQuality handed to draw(): the bounds, the thresholds and their
\* neighbours, and a value below qualityMin
DrawQualities == { 0, 3800, 4999, 5000, 6599, 6600, 6800, 10000 }

InitDraw ==
    /\ trail \in DrawTrails /\ lastPushed = NullSample /\ wall \in DrawTimes /\ calls = 0
    /\ op = OpRecord("init", "", <<>>, 0, 0, 0, 0, <<>>, <<>>, NullSample)
    /\ loop = NewLoop(0) /\ perfEnabled = TRUE /\ windowFlag = TRUE /\ trailActive = TRUE
    /\ canvasParent = "body" /\ styleAttached = TRUE /\ rafPending = 1
    /\ frame = Frame("init", FALSE, 0, FALSE, NewLoop(0), FALSE, Null, FALSE, 0, 0)
    /\ hist = [ticks |-> 0, restSince |-> 0, cleaned |-> FALSE, ticksAfterCleanup |-> 0,
               still |-> 0, stillMs |-> 0, hop |-> -1]
    /\ osc = NewOsc /\ hex = HexIdle(NewDyn) /\ canon = NewCanon /\ inert = NewController
    /\ snap = NewSnap
    /\ \E enabled \in BOOLEAN : drawn = [NewDraw EXCEPT !.stackHex = enabled]

\* one call of draw(): sub is the number of pieces a pair of samples is cut
\* into, in the move direction, detail need and alpha of the hex cells
DrawFrame(perfQuality, isIdle, sub, in) ==
    /\ drawn.n < MaxDraws
    /\ \E r \in {draw(drawn, hex.dyn, trail, wall, perfQuality, isIdle, sub, in)} :
        /\ drawn' = r.drawn
        /\ hex' = r.hex
    /\ UNCHANGED <<wall, osc, canon, inert, snap>>
    /\ UNCHANGED storeVars /\ UNCHANGED loopVars

\* per frame, for all its cells: the trail goes on, the trail turns back,
\* the cells have faded to alpha 0
DrawCellInputs == { <<Pt(QS, 0), 0, TRUE>>, <<Pt(-QS, 0), 0, TRUE>>, <<Pt(QS, 0), 0, FALSE>> }

NextDraw ==
    \E perfQuality \in DrawQualities, isIdle \in BOOLEAN, sub \in {1, 2}, in \in DrawCellInputs :
        DrawFrame(perfQuality, isIdle, sub, in)

SpecDraw == InitDraw /\ [][NextDraw]_vars

\* ========================================================================
\* Claims
\* ========================================================================
Round(a, b) == (2 * a + b) \div (2 * b)
IsPush == op.kind = "push"
CenterOf(sample) == Pt(sample.cx, sample.cy)

\* C1: after every push the buffer holds at most maxRects samples, and what
\* it holds is the newest maxRects of (buffer before the push, then the
\* samples the push appended), in their original order.
C1_CapFifo ==
    /\ Len(trail) <= maxRects
    /\ IsPush =>
         LET all == op.trailBefore \o op.entries
             dropped == Len(all) - Len(trail)
         IN  /\ Len(trail) = Min(Len(all), maxRects)
             /\ \A i \in 1..Len(trail) : trail[i] = all[i + dropped]

\* a push that overflowed the cap
C1_Witness == IsPush /\ Len(op.trailBefore) + Len(op.entries) > maxRects

\* C2: every stored sample (in the buffer, or appended by the last push)
\* has at least 3 vertices and is not self-intersecting.
C2_StoredSimple ==
    /\ \A i \in 1..Len(trail) :
         Len(trail[i].pts) >= 3 /\ ~isSelfIntersectingPolygon(trail[i].pts)
    /\ \A i \in 1..Len(op.entries) :
         Len(op.entries[i].pts) >= 3 /\ ~isSelfIntersectingPolygon(op.entries[i].pts)

\* a polygon handed over in self-intersecting vertex order was stored
\* after interpolation against an earlier sample
C2_Witness ==
    /\ IsPush /\ op.outcome = "interpolated"
    /\ isSelfIntersectingPolygon(op.poly)
    /\ Len(op.entries) >= 2

\* C3: after pruneTrail(now) nothing older than ttlMs is left, everything
\* of age <= ttlMs is kept, and the survivors keep their order.
C3_PruneExact ==
    op.kind = "prune" =>
        /\ \A i \in 1..Len(trail) : op.stamp - trail[i].t <= ttlMs
        /\ trail = SelectSeq(op.trailBefore, LAMBDA s : op.stamp - s.t <= ttlMs)

\* a prune that removed some samples and kept one of age exactly ttlMs
C3_Witness ==
    /\ op.kind = "prune"
    /\ Len(trail) < Len(op.trailBefore)
    /\ \E i \in 1..Len(trail) : op.stamp - trail[i].t = ttlMs

\* C8: a non-first push that passes the threshold appends at most
\* min(max(1, round(maxInterpPerPush * quality)), ceil(metric / adaptiveStep))
\* samples, all with the push's timestamp, at the end of the buffer and
\* progressing from the previous sample toward the new polygon; a 200 px
\* centre jump at quality 1 appends exactly 4.
C8_Bound ==
    Min(Max(1, Round(maxInterpPerPush * op.quality, QS)),
        CeilDiv(op.metric * op.quality, adaptiveInterpStepPx * QS))
C8_IsJump ==
    LET c == polygonCenter(op.poly)
    IN  hypot(c.x - op.lastBefore.cx, c.y - op.lastBefore.cy) = 200 * PX
C8_Progress(i) ==
    pointDist(CenterOf(op.entries[i]), CenterOf(op.lastBefore))
C8_Interpolation ==
    (IsPush /\ op.outcome = "interpolated") =>
        LET k == Len(op.entries)
        IN  /\ k <= C8_Bound
            /\ \A i \in 1..k : op.entries[i].t = op.stamp
            /\ \A i \in 1..(k - 1) : C8_Progress(i) < C8_Progress(i + 1)
            /\ k <= Len(trail)
            /\ \A i \in 1..k : trail[Len(trail) - k + i] = op.entries[i]
            /\ (C8_IsJump /\ op.quality = QS) => k = maxInterpPerPush

\* the 200 px jump at quality 1
C8_Witness ==
    /\ IsPush /\ op.outcome = "interpolated"
    /\ C8_IsJump /\ op.quality = QS
    /\ Len(op.entries) = 4

\* C9: a rejected push (fewer than 3 points, invalid polygon, or movement
\* metric below max(minMovePx, cornerInterpEpsilonPx)) changes neither the
\* buffer nor the last-pushed reference.
C9_Rejected ==
    /\ IsPush
    /\ \/ Len(op.poly) < 3
       \/ op.outcome \in {"invalid", "invalidAfter"}
       \/ /\ op.outcome \in {"belowThreshold", "interpolated"}
          /\ op.metric < Max(minMovePx, cornerInterpEpsilonPx)
C9_RejectedNoEffect ==
    C9_Rejected => trail = op.trailBefore /\ lastPushed = op.lastBefore

\* sub-threshold jitter pushed against a non-empty buffer
C9_Witness ==
    /\ C9_Rejected /\ op.outcome = "belowThreshold"
    /\ Len(trail) > 0 /\ op.poly # op.lastBefore.pts

\* ------------------------------------------------------------------------
\* Claims about the tick loop
\* ------------------------------------------------------------------------
\* the tick just executed updated the quality scalar (lines 2372-2396)
IsDrawnTick == hist.ticks > 0 /\ frame.path = "drawn"

\* C4: after every tick perfQuality is within [qualityMin, 1], and it is 1
\* after any tick when adaptive performance is disabled.
C4_QualityRange ==
    /\ qualityMin <= loop.perfQuality /\ loop.perfQuality <= QS
    /\ ~perfEnabled => loop.perfQuality = QS

\* three slow frames with long hops: the scalar has come down to its floor
C4_Witness ==
    /\ IsDrawnTick /\ perfEnabled
    /\ frame.qualityBefore > qualityMin
    /\ loop.perfQuality = qualityMin

\* C5: on every tick that updates it, the quality scalar moves toward that
\* tick's target quality without crossing it: below a smaller target it
\* never goes and it drops by at most degradeRatePerSec * dt; otherwise it
\* never passes the target and rises by at most recoverRatePerSec * dt.
C5_TowardTarget ==
    IsDrawnTick =>
        IF loop.perfTargetQuality < frame.qualityBefore
        THEN /\ loop.perfTargetQuality <= loop.perfQuality
             /\ loop.perfQuality <= frame.qualityBefore
             /\ frame.qualityBefore - loop.perfQuality
                    <= MulDiv(degradeRatePerSec, frame.dtMs, 1000)
        ELSE /\ frame.qualityBefore <= loop.perfQuality
             /\ loop.perfQuality <= loop.perfTargetQuality
             /\ loop.perfQuality - frame.qualityBefore
                    <= MulDiv(recoverRatePerSec, frame.dtMs, 1000)

\* a recovery that the rate limit holds below the target
C5_Witness ==
    /\ IsDrawnTick /\ perfEnabled
    /\ frame.qualityBefore < loop.perfQuality
    /\ loop.perfQuality < loop.perfTargetQuality
    /\ loop.perfQuality - frame.qualityBefore = MulDiv(recoverRatePerSec, frame.dtMs, 1000)

\* C6: after the cleanup hook has run, no tick executes or is scheduled, the
\* trail buffer and the last-pushed reference stay empty and the canvas
\* stays detached.
C6_Halted ==
    hist.cleaned =>
        /\ hist.ticksAfterCleanup = 0
        /\ rafPending = 0
        /\ trail = <<>>
        /\ lastPushed = NullSample
        /\ canvasParent = "none"

\* C7: every execution of rafLoop schedules exactly one next execution,
\* whether it completes, returns early for a hidden cursor or throws; one
\* callback is pending after every tick.
C7_OneNextTick ==
    hist.ticks > 0 =>
        /\ frame.scheduledInTry + frame.scheduledAfterTry = 1
        /\ rafPending = 1

\* a tick that threw after two earlier ticks, one of them an early return
C7_Witness ==
    /\ hist.ticks = 3 /\ frame.threw
    /\ frame.scheduledInTry = 0 /\ frame.scheduledAfterTry = 1
    /\ ~loop.canvasVisible
    /\ rafPending = 1

\* C10 as stated: the target rectangle unchanged for longer than ttlMs
\* leaves the buffer empty after the prune of the tick.
C10_StationaryTarget ==
    (hist.ticks > 0 /\ frame.pruned /\ wall - loop.lastRealMoveMs > ttlMs) => trail = <<>>

\* C10, amended: when no tick has reported corner movement for longer than
\* ttlMs, the buffer is empty after the prune of the tick.
C10_CornersAtRest ==
    (hist.ticks > 0 /\ frame.pruned /\ wall - hist.restSince > ttlMs) => trail = <<>>

\* the corners came to rest with samples in the buffer, and the prune of a
\* later tick removed the last of them
C10_Witness ==
    /\ hist.ticks > 0 /\ frame.pruned
    /\ wall - hist.restSince > ttlMs
    /\ hist.restSince > 0
    /\ op.kind = "prune" /\ op.trailBefore # <<>>
    /\ trail = <<>>

\* the tick just executed appended samples to the buffer
TickPushed == hist.ticks > 0 /\ frame.push.some /\ frame.push.val.entries # <<>>

\* C11 as stated: a tick whose poll finds no visible caret pushes no sample.
C11_NoCaretNoPush ==
    (hist.ticks > 0 /\ ~frame.hasCursor) => ~TickPushed

\* C11, amended: a tick whose poll finds no visible caret, none having been
\* seen within the last noCursorHideDelayMs, pushes no sample and leaves
\* the buffer as the previous tick left it.
C11_HiddenNoPush ==
    (hist.ticks > 0 /\ ~frame.hasCursor /\ wall - loop.lastCursorSeenMs > noCursorHideDelayMs)
        => ~TickPushed /\ ~frame.pruned

\* the caret disappears while the corners are still moving toward it
C11_Witness ==
    /\ hist.ticks > 0 /\ ~frame.hasCursor /\ ~frame.threw
    /\ loop.lastCursorSeenMs # NeverSeen
    /\ wall - loop.lastCursorSeenMs > noCursorHideDelayMs
    /\ frame.path = "hidden"
    /\ trail # <<>>

\* C12: after one kick of impulse 5 (or any other impulse offered) and no
\* further kick, 500 steps of 1/60 s leave x and v exactly 0, and a step
\* taken at (0, 0) stays at (0, 0).
C12_DeadzoneRest ==
    /\ (osc.kick # 0 /\ osc.steps >= 500) => osc.b = Oscillator(0, 0)
    /\ (osc.restBefore /\ osc.steps > 0) => osc.b = Oscillator(0, 0)

\* the kick of 5 was still swinging after 100 steps and is at rest after 500
C12_Witness ==
    /\ osc.kick = 5 * OS /\ osc.steps = 500
    /\ osc.b = Oscillator(0, 0) /\ osc.restBefore

\* every spring offset is below 0.01 px and the last tick reported no movement
CornersAtRest ==
    /\ \A i \in 1..4 : /\ Abs(loop.cursor.corners[i].sx.pos) < 10
                       /\ Abs(loop.cursor.corners[i].sy.pos) < 10
    /\ ~frame.moving

\* C13 as stated: after at least 10 ticks with a stationary target every
\* corner's spring offset is below 0.01 on both axes and moving is false.
C13_RestAfterTenTicks == hist.still >= 10 => CornersAtRest

\* C13, amended: once the ticks with a stationary target have advanced the
\* springs by at least 1 s of frame time, every corner's spring offset is
\* below 0.01 on both axes and moving is false, at that tick and at every
\* later tick with the target still stationary.
C13_RestAfterOneSecond == hist.stillMs >= 1000 => CornersAtRest

\* a hop of 200 px or more followed at 16 ms frames: the corners moved,
\* and are at rest after one second
C13_Witness ==
    /\ hist.stillMs >= 1000 /\ frame.dtMs = 16
    /\ hist.restSince > 500
    /\ CornersAtRest

\* ------------------------------------------------------------------------
\* The inertial cursor: commands, timer ticks, and cursorMove commands that
\* take effect and resolve later
\* ------------------------------------------------------------------------
MaxInflight == 2        \* cursorMove commands issued and not yet resolved

InertIdle ==
    UNCHANGED <<wall, osc, hex, canon, snap, drawn>> /\ UNCHANGED storeVars /\ UNCHANGED loopVars

InertInit ==
    /\ trail = <<>> /\ lastPushed = NullSample /\ wall = 0 /\ calls = 0
    /\ op = OpRecord("init", "", <<>>, 0, 0, 0, 0, <<>>, <<>>, NullSample)
    /\ loop = NewLoop(0) /\ perfEnabled = TRUE /\ windowFlag = TRUE /\ trailActive = TRUE
    /\ canvasParent = "body" /\ styleAttached = TRUE /\ rafPending = 1
    /\ frame = Frame("init", FALSE, 0, FALSE, NewLoop(0), FALSE, Null, FALSE, 0, 0)
    /\ hist = [ticks |-> 0, restSince |-> 0, cleaned |-> FALSE, ticksAfterCleanup |-> 0,
               still |-> 0, stillMs |-> 0, hop |-> -1]
    /\ osc = NewOsc /\ hex = HexIdle(NewDyn) /\ canon = NewCanon
    /\ snap = NewSnap /\ drawn = NewDraw
    /\ inert = NewController

\* inertiaCursor.up/down/left/right, pressed times times in a row
Impulse(dir, times) ==
    /\ inert.active
    /\ Len(inert.inflight) < MaxInflight
    /\ \E before \in {ImpulseTimes(inert, dir, times - 1)} :
          inert' = WithOp(impulse(before, dir), "impulse", dir, before)
    /\ InertIdle

\* the interval set by #restartTimer fires
TimerTick ==
    /\ inert.liveTimers > 0
    /\ Len(inert.inflight) < MaxInflight
    /\ inert' = WithOp(tickOnce(inert), "tick", inert.st.dir, inert)
    /\ InertIdle

\* the oldest cursorMove command not yet carried out moves the caret; if
\* the caret changes, the selection listener runs
MoveApplied ==
    /\ inert.editor
    /\ \E i \in 1..Len(inert.inflight) :
          /\ ~inert.inflight[i].applied
          /\ \A j \in 1..(i - 1) : inert.inflight[j].applied
          /\ \E moved \in {[inert EXCEPT
                               !.caret = CaretAfter(@, inert.inflight[i].dir,
                                                    inert.inflight[i].step),
                               !.inflight[i].applied = TRUE]} :
                inert' = [WithOp(IF moved.caret # inert.caret /\ inert.active
                                 THEN onDidChangeTextEditorSelection(moved) ELSE moved,
                                 "applied", inert.inflight[i].dir, inert)
                             EXCEPT !.events = inert.events]
    /\ InertIdle

\* the oldest cursorMove command resolves; a tick waiting for it goes on
MoveSettled ==
    /\ inert.inflight # <<>>
    /\ inert.inflight[1].applied \/ ~inert.editor
    /\ \E rest \in {[inert EXCEPT !.inflight = Tail(@)]} :
          inert' = [WithOp(IF /\ inert.inflight[1].kind = "tick"
                              /\ inert.active /\ inert.inflight[1].gen = inert.gen
                           THEN tickResumed(rest) ELSE rest,
                           "settled", inert.inflight[1].dir, inert)
                       EXCEPT !.events = inert.events]
    /\ InertIdle

\* inertiaCursor.stop
StopCommand ==
    /\ inert.active
    /\ inert' = WithOp(stop(inert), "stop", "none", inert)
    /\ InertIdle

\* the configuration changes and applyUserTuningFromConfig runs
ConfigChanged(rawImpulse, rawTick) ==
    /\ inert' = WithOp([applyUserTuningFromConfig(inert, rawImpulse, rawTick)
                           EXCEPT !.raw = <<rawImpulse, rawTick>>],
                       "tuning", "none", inert)
    /\ InertIdle

\* cursorOnce.up/down/left/right
CursorOnce(dir) ==
    /\ inert.active
    /\ Len(inert.inflight) < MaxInflight
    /\ inert' = WithOp(cursorOnce(inert, dir), "once", dir, inert)
    /\ InertIdle

\* inertiaCursor.toggleSelectMode
ToggleSelectMode ==
    /\ inert.active
    /\ inert' = WithOp(toggleSelectMode(inert), "select", "none", inert)
    /\ InertIdle

\* the active text editor goes away or comes back
EditorSwitch ==
    /\ inert' = WithOp([inert EXCEPT !.editor = ~@], "editor", "none", inert)
    /\ InertIdle

\* the user places the caret of the active editor somewhere else (a click,
\* a key of the editor); the selection listener runs while it is registered
ExternalSelection(caret) ==
    /\ inert.editor /\ caret # inert.caret
    /\ \E moved \in {[inert EXCEPT !.caret = caret]} :
          inert' = WithOp(IF inert.active THEN onDidChangeTextEditorSelection(moved) ELSE moved,
                          "external", "none", inert)
    /\ InertIdle

\* the extension is switched off: inertia.deactivate()
Deactivate ==
    /\ inert' = WithOp(inertiaDeactivate(inert), "deactivate", "none", inert)
    /\ InertIdle

\* the extension is switched on: inertia.activate()
Activate ==
    /\ inert' = WithOp(inertiaActivate(inert), "activate", "none", inert)
    /\ InertIdle

\* ------------------------------------------------------------------------
\* Specification of the velocity cap: a key held down sends SurgeBurst
\* impulses between two ticks
\* ------------------------------------------------------------------------
MaxSurgeEvents == 4     \* commands and ticks in one behaviour of SpecSurge
SurgeBurst == 130       \* impulses of a held key

SurgeLevels == { Level(LEVEL_MAX), Level(LEVEL_MIN) }

NextSurge ==
    /\ inert.events < MaxSurgeEvents
    /\ \/ \E times \in {1, SurgeBurst} : Impulse("right", times)
       \/ Impulse("left", 1)
       \/ TimerTick
       \/ StopCommand
       \/ \E raw \in SurgeLevels : ConfigChanged(raw, raw)
       \/ EditorSwitch

NextSurgeMoves == MoveApplied \/ MoveSettled

SpecSurge ==
    InertInit /\ [][NextSurge \/ NextSurgeMoves]_vars

\* ------------------------------------------------------------------------
\* Specification of runs left alone: an impulse arrives only when no run is
\* in progress; the interval keeps firing and cursorMove commands are
\* carried out and resolve
\* ------------------------------------------------------------------------
MaxDecayRuns == 1       \* runs started in one behaviour of SpecDecay
MaxDecayTunings == 1    \* commands before which the tuning may still change

DecayDirs == { "up", "down", "left", "right" }
DecayLevels == { Level(LEVEL_MIN), Level(LEVEL_MAX) }

DecayStart ==
    /\ ~inert.st.running /\ inert.runs < MaxDecayRuns
    /\ \E dir \in DecayDirs : Impulse(dir, 1)

DecayTuning ==
    /\ inert.events < MaxDecayTunings
    /\ \E raw \in DecayLevels : ConfigChanged(raw, raw)

NextDecay == DecayStart \/ DecayTuning \/ TimerTick \/ MoveApplied \/ MoveSettled

SpecDecay ==
    /\ InertInit
    /\ [][NextDecay]_vars
    /\ WF_vars(TimerTick) /\ WF_vars(MoveApplied) /\ WF_vars(MoveSettled)

\* ------------------------------------------------------------------------
\* Specification of the cursor commands: single steps, impulses, stop,
\* select mode, with the timer and the editor in between
\* ------------------------------------------------------------------------
MaxInertiaEvents == 4   \* commands and ticks in one behaviour of SpecInertia

InertiaDirs == { "left", "right" }

NextInertia ==
    /\ inert.events < MaxInertiaEvents
    /\ \/ \E dir \in InertiaDirs : CursorOnce(dir)
       \/ \E dir \in InertiaDirs : Impulse(dir, 1)
       \/ TimerTick
       \/ StopCommand
       \/ ToggleSelectMode
       \/ EditorSwitch

NextInertiaMoves == MoveApplied \/ MoveSettled

SpecInertia ==
    InertInit /\ [][NextInertia \/ NextInertiaMoves]_vars

\* ------------------------------------------------------------------------
\* Specification of the level mapping: the two configured levels change to
\* arbitrary values and applyUserTuningFromConfig runs
\* ------------------------------------------------------------------------
MaxTuningEvents == 2    \* configuration changes in one behaviour of SpecTuning

\* the lowest, the default, a middle and the highest level, values between
\* levels and at the rounding points, values out of range on both sides,
\* and values that are not finite numbers
RawLevels ==
    { Level(LEVEL_MIN), Level(DEFAULT_IMPULSE_LEVEL), Level(7), Level(LEVEL_MAX) }
    \cup { Num(t) : t \in {-1000, 0, 14, 15, 35, 44, 45, 94, 95, 1000} }
    \cup { NotNum("nan"), NotNum("inf"), NotNum("unset") }

NextTuning ==
    /\ inert.events < MaxTuningEvents
    /\ \E rawImpulse \in RawLevels, rawTick \in RawLevels : ConfigChanged(rawImpulse, rawTick)

SpecTuning == InertInit /\ [][NextTuning]_vars

\* ------------------------------------------------------------------------
\* Specification of the controller's life: runs, stops, the timer, tuning
\* changes, the user's own caret moves, and the extension switched off and on
\* ------------------------------------------------------------------------
MaxLifeEvents == 4      \* commands, ticks and other events in one behaviour of SpecLife

\* a tick-slow level that changes the tick interval and the default one
LifeLevels == { Level(LEVEL_MAX), Level(DEFAULT_TICK_SLOW_LEVEL) }

\* where the user puts the caret
LifeCarets == { <<0, 0>> }

NextLife ==
    /\ inert.events < MaxLifeEvents
    /\ \/ \E dir \in InertiaDirs : Impulse(dir, 1)
       \/ TimerTick
       \/ StopCommand
       \/ \E raw \in LifeLevels : ConfigChanged(raw, raw)
       \/ \E caret \in LifeCarets : ExternalSelection(caret)
       \/ Deactivate
       \/ Activate

NextLifeMoves == MoveApplied \/ MoveSettled

SpecLife ==
    InertInit /\ [][NextLife \/ NextLifeMoves]_vars

\* the cells filled before the cell just processed
HexBefore ==
    IF hex.cell.accepted THEN SubSeq(hex.rendered, 1, Len(hex.rendered) - 1) ELSE hex.rendered

\* C14 as stated: no two cells filled in the frame satisfy the overlap
\* test, and a non-head cell whose hexagon is self-intersecting or overlaps
\* a cell filled before it is replaced by its quad variant or skipped.
C14_NoTwoCellsOverlap ==
    /\ \A j \in 1..Len(hex.rendered) : \A i \in 1..(j - 1) :
          ~polygonsOverlap(hex.rendered[j].pts, hex.rendered[i].pts, overlapEpsilonPx)
    /\ (/\ hex.ci > 0 /\ ~hex.cell.headQuad
        /\ \/ ~isValidTrailPolygon(hex.cell.hexPts)
           \/ \E i \in 1..Len(HexBefore) :
                 polygonsOverlap(hex.cell.hexPts, HexBefore[i].pts, overlapEpsilonPx))
       => hex.cell.fellBack \/ ~hex.cell.accepted

\* C14, amended: a cell filled as a hexagon or as a head quad does not
\* satisfy the overlap test with any cell filled earlier in the frame other
\* than the one filled last before it, and a non-head cell whose hexagon
\* is self-intersecting or overlaps such an earlier cell is replaced by its
\* quad variant, which is filled only if it is a valid polygon (it is not
\* tested for overlap).
C14_TestedCellsApart ==
    /\ \A j \in 1..Len(hex.rendered) : \A i \in 1..(j - 2) :
          hex.rendered[j].tested =>
              ~polygonsOverlap(hex.rendered[j].pts, hex.rendered[i].pts, overlapEpsilonPx)
    /\ (/\ hex.ci > 0 /\ ~hex.cell.headQuad
        /\ \/ ~isValidTrailPolygon(hex.cell.hexPts)
           \/ \E i \in 1..(Len(HexBefore) - 1) :
                 polygonsOverlap(hex.cell.hexPts, HexBefore[i].pts, overlapEpsilonPx))
       => /\ hex.cell.fellBack
          /\ Len(hex.cell.pts) = 4
          /\ hex.cell.accepted => isValidTrailPolygon(hex.cell.pts)

\* the trail turns back: the third cell's hexagon reaches into the first
\* cell and the cell is replaced by its quad
C14_Witness ==
    /\ hex.ci = 3 /\ Len(HexBefore) = 2
    /\ hex.cell.fellBack
    /\ isValidTrailPolygon(hex.cell.hexPts)
    /\ polygonsOverlap(hex.cell.hexPts, HexBefore[1].pts, overlapEpsilonPx)
    /\ hex.rendered[2].tested

\* C15: canonicalization is idempotent: for a polygon P of at least 3
\* vertices and a reference of the same length or none, with
\* C = canonicalizePolygon(P, ref), canonicalizePolygon(C, C) = C.
C15_CanonIdempotent ==
    (/\ canon.stage = "twice" /\ Len(canon.poly) >= 3
     /\ canon.ref = <<>> \/ Len(canon.ref) = Len(canon.poly))
    => canon.cc = canon.c

\* a four-point polygon that canonicalization against a reference of the
\* other winding has reordered, canonicalized again against itself
C15_Witness ==
    /\ canon.stage = "twice" /\ Len(canon.poly) = 4 /\ Len(canon.ref) = 4
    /\ canon.c # canon.poly
    /\ Sign(polygonSignedArea(canon.c)) = -Sign(polygonSignedArea(canon.poly))
    /\ polygonSignedArea(canon.c) # 0
    /\ canon.cc = canon.c

\* the last operation was an impulse in the direction of a run in progress
SameDirImpulse ==
    /\ inert.op.name = "impulse" /\ inert.op.st.running /\ inert.op.st.dir = inert.op.dir

C17_StepsOfARun ==
    /\ inert.run.moves >= 1 => inert.run.firstStep = 2 /\ inert.run.forced = 1
    /\ inert.run.forced <= 1
    /\ inert.last.kind = "tick" =>
          /\ inert.last.step \in 1..maxStepPerTick
          /\ inert.last.forced <=> inert.run.moves = 1
          /\ inert.last.forced => inert.last.step = 2
          /\ ~inert.last.forced =>
                inert.last.step = clamp(RoundV(inert.last.v), 1, maxStepPerTick)

\* a later move of a run whose velocity rounds to more than maxStepPerTick
C17_Witness ==
    /\ inert.op.name = "tick" /\ inert.tick = "move"
    /\ inert.run.moves >= 2 /\ inert.run.forced = 1 /\ inert.run.firstStep = 2
    /\ ~inert.last.forced /\ RoundV(inert.last.v) > maxStepPerTick
    /\ inert.last.step = maxStepPerTick

\* C18: with no further impulse after a run starts, the velocity is
\* multiplied by decay after each move, the run ends (running = false, timer
\* cleared, no move issued) at the first tick that observes v < cutoff, and
\* every run ends.
C18_RunDecaysAndEnds ==
    /\ [][(MoveSettled /\ inert.inflight[1].kind = "tick")
             => inert'.st.velocity = MulDiv(inert.st.velocity, decay, QS)]_vars
    /\ [][(TimerTick /\ inert.st.running /\ inert.st.velocity < cutoff)
             => /\ ~inert'.st.running /\ ~inert'.st.timer /\ inert'.liveTimers = 0
                /\ inert'.moves = inert.moves /\ inert'.inflight = inert.inflight]_vars
    /\ [][(TimerTick /\ inert.st.running /\ inert.editor /\ inert.st.velocity >= cutoff)
             => inert'.st.running /\ inert'.moves = inert.moves + 1]_vars
    /\ [][(~inert.st.running /\ ~inert'.st.running) => inert'.moves = inert.moves]_vars
    /\ (inert.st.running ~> ~inert.st.running)

\* a run of three moves (1.1, 1.056, 1.01376) ended by the tick that saw
\* 0.9732 < cutoff
C18_Witness ==
    /\ inert.op.name = "tick" /\ inert.tick = "stop"
    /\ inert.op.st.running /\ inert.op.st.velocity > 0 /\ inert.op.st.velocity < cutoff
    /\ inert.run.moves = 3
    /\ ~inert.st.running /\ ~inert.st.timer /\ inert.liveTimers = 0

\* C19: a single-step command issues exactly one cursor move of step 1 and
\* leaves the controller's running flag, direction, velocity and timer
\* unchanged, so a controller that was not running is still not running.
C19_SingleStepOnly ==
    inert.op.name = "once" =>
        /\ inert.moves = inert.op.moves + 1
        /\ inert.last = [kind |-> "once", dir |-> inert.op.dir, step |-> 1,
                         select |-> inert.op.st.selectMode,
                         v |-> inert.op.st.velocity, forced |-> FALSE]
        /\ inert.inflight # <<>>
        /\ inert.inflight[Len(inert.inflight)] =
              [kind |-> "once", dir |-> inert.op.dir, step |-> 1, run |-> inert.runs,
               gen |-> inert.gen, applied |-> FALSE]
        /\ inert.st = inert.op.st
        /\ ~inert.op.st.running => ~inert.st.running /\ inert.liveTimers = 0

\* a single step against the direction of a run in progress
C19_Witness ==
    /\ inert.op.name = "once" /\ inert.op.dir = "left"
    /\ inert.st.running /\ inert.st.dir = "right" /\ inert.st.timer
    /\ inert.st.velocity > initialVelocity
    /\ inert.last.kind = "once" /\ inert.last.step = 1
    /\ inert.st = inert.op.st

\* what C20 says of one configured value and the level applied for it
LevelApplied(raw, level) ==
    /\ level \in 1..10
    /\ raw.kind \in {"nan", "inf"} => level = 4
    /\ raw.kind = "num" =>
          \/ level = 1 /\ raw.tenths < 15
          \/ level = 10 /\ raw.tenths >= 95
          \/ 10 * level - 5 <= raw.tenths /\ raw.tenths < 10 * level + 5

\* C20: the applied level is an integer in [1, 10] (4 for a non-finite
\* value), tickMs(level) = round(14 + (level - 1) / 9 * 54) is in [14, 68],
\* impulse(level) = 0.30 + (level - 1) / 9 * 1.80 is in [0.30, 2.10], both
\* are non-decreasing in the level, and level 4 gives 32 ms and 0.90.
C20_LevelMapping ==
    inert.op.name = "tuning" =>
        /\ LevelApplied(inert.raw[1], inert.tuning.impulseLevel)
        /\ LevelApplied(inert.raw[2], inert.tuning.tickSlowLevel)
        /\ 2 * Abs(9 * inert.tuning.tickMs - (9 * 14 + (inert.tuning.tickSlowLevel - 1) * 54)) <= 9
        /\ inert.tuning.tickMs \in 14..68
        /\ 9 * inert.tuning.impulse = 9 * 3000 + (inert.tuning.impulseLevel - 1) * 18000
        /\ inert.tuning.impulse >= 3000 /\ inert.tuning.impulse <= 21000
        /\ inert.cfg = [tickMs |-> inert.tuning.tickMs, impulse |-> inert.tuning.impulse]
        /\ inert.tuning.tickSlowLevel = 4 => inert.tuning.tickMs = 32
        /\ inert.tuning.impulseLevel = 4 => inert.tuning.impulse = 9000
        /\ \A a \in 1..10 : \A b \in a..10 :
              /\ tickMsFromLevel(a) <= tickMsFromLevel(b)
              /\ impulseFromLevel(a) <= impulseFromLevel(b)

\* a value that is not a number next to one far above the range
C20_Witness ==
    /\ inert.op.name = "tuning"
    /\ inert.raw = <<NotNum("nan"), Num(1000)>>
    /\ inert.tuning = [impulseLevel |-> 4, tickSlowLevel |-> 10, impulse |-> 9000,
                       tickMs |-> 68]
    /\ inert.cfg = [tickMs |-> 68, impulse |-> 9000]

\* the last operation was an impulse against the direction of a run in
\* progress
OtherDirImpulse ==
    /\ inert.op.name = "impulse" /\ inert.op.st.running /\ inert.op.st.dir # inert.op.dir

\* what a direction switch does to the controller whose state was before
Switched(before) ==
    /\ inert.st = [before EXCEPT !.dir = inert.op.dir,
                                 !.velocity = Max(initialVelocity, IDiv(@, 10))]
    /\ inert.st.velocity >= initialVelocity
    /\ inert.timersSet = inert.op.timersSet /\ inert.st.timer
    /\ inert.moves = inert.op.moves /\ inert.inflight = inert.op.inflight

C22_JumpInPosition ==
    (snap.n > 0 /\ snap.placed /\ snap.hard /\ snap.destMoved)
        => <<snap.c.cx, snap.c.cy>> # <<snap.plain.cx, snap.plain.cy>>

\* C23: the quality gates of draw() are staged.  The sample cap is below
\* maxRects only when the clamped quality is below historyStartThreshold; a
\* drawn shadow's blur is below its base only when the quality is below
\* blurStartThreshold; wherever the cap is reduced the blur is below its
\* base too; neither is reduced at a quality >= subdivideOnlyThreshold.
C23_StagedGates ==
    drawn.n > 0 =>
        /\ drawn.effectiveMaxRects < maxRects => drawn.clampedQuality < historyStartThreshold
        /\ (drawn.shadowOn /\ drawn.shadowBlur < drawn.shadowBase)
               => drawn.clampedQuality < blurStartThreshold
        /\ drawn.effectiveMaxRects < maxRects => drawn.shadowBlur < drawn.shadowBase
        /\ drawn.clampedQuality >= subdivideOnlyThreshold
               => /\ drawn.effectiveMaxRects = maxRects
                  /\ drawn.shadowOn => drawn.shadowBlur = drawn.shadowBase

\* a frame with a drawn shadow, between the two thresholds: the blur is
\* attenuated and the cap is not yet reduced
C23_Witness ==
    /\ drawn.n > 0 /\ drawn.shadowOn
    /\ drawn.clampedQuality >= historyStartThreshold
    /\ drawn.clampedQuality < blurStartThreshold
    /\ drawn.shadowBlur > 0 /\ drawn.shadowBlur < drawn.shadowBase
    /\ drawn.effectiveMaxRects = maxRects

\* a frame below historyStartThreshold: the cap is reduced, the blur too
C23_WitnessCut ==
    /\ drawn.n > 0 /\ drawn.shadowOn
    /\ drawn.effectiveMaxRects < maxRects
    /\ drawn.shadowBlur < drawn.shadowBase

RibbonFilled == drawn.ribbonPairs > 0 \/ drawn.ribbonCap

\* what C24 says of the hex-cell path: it reports no draw when it is
\* disabled, when fewer than two sections are available, or when no cell
\* was accepted for filling, and it fills no cell in a frame in which it
\* reports no draw
HexReportsFaithfully ==
    /\ (~drawn.stackHex \/ drawn.sections < 2 \/ drawn.hexFills = 0) => ~drawn.drewStacked
    /\ ~drawn.drewStacked => drawn.hexFills = 0
    /\ drawn.hexFills = Len(hex.rendered)

\* C24 as stated: in every frame the ribbon path issues fills if and only if
\* the hex-cell path reported no draw, and the hex-cell path reports
\* faithfully.
C24_Exclusive ==
    drawn.n > 0 => /\ RibbonFilled <=> ~drawn.drewStacked
                   /\ HexReportsFaithfully

\* C24: in every frame the ribbon path issues fills only if the hex-cell
\* path reported no draw; when it reported no draw the ribbon path runs and
\* issues fills exactly when the trail buffer holds a sample; the hex-cell
\* path reports faithfully.
C24_ExclusiveOnTrail ==
    drawn.n > 0 => /\ RibbonFilled => ~drawn.drewStacked
                   /\ drawn.ribbonRan <=> ~drawn.drewStacked
                   /\ ~drawn.drewStacked => (RibbonFilled <=> Len(trail) > 0)
                   /\ HexReportsFaithfully

\* a frame whose hex-cell path filled cells and reported a draw, over a
\* trail the ribbon path would have filled
C24_Witness ==
    /\ drawn.n > 0 /\ drawn.stackHex /\ drawn.sections >= 2
    /\ drawn.drewStacked /\ drawn.hexFills > 0
    /\ Len(trail) >= 2 /\ ~RibbonFilled

\* a frame whose hex-cell path ran its cells, filled none, and left the
\* frame to the ribbon path
C24_WitnessFallback ==
    /\ drawn.n > 0 /\ drawn.stackHex /\ drawn.hexRan
    /\ ~drawn.drewStacked /\ drawn.hexFills = 0
    /\ drawn.ribbonPairs > 0 /\ drawn.ribbonCap

\* a selection-change event caused by the user, with the listener registered
ExternalEvent == inert.op.name = "external" /\ inert.active

\* C25: while a run is active, a selection-change event of the active editor
\* stops the run exactly when the suppress counter is 0 and the selection
\* signature differs from the expected one; with a positive counter the
\* event only decrements it; events while not running change no state.
\* Hence a selection change made by the user during a run ends the run.
C25_ExternalChangeEndsRun ==
    ExternalEvent =>
        /\ (inert.op.st.running /\ inert.op.st.suppressSelEvents = 0)
               => (~inert.st.running <=> inert.caret # inert.op.st.expectedSig)
        /\ (inert.op.st.running /\ inert.op.st.suppressSelEvents > 0)
               => inert.st = [inert.op.st EXCEPT !.suppressSelEvents = @ - 1]
        /\ ~inert.op.st.running => inert.st = inert.op.st
        /\ inert.op.st.running => ~inert.st.running

\* the listener alone, as C25 describes it
C25_Listener ==
    ExternalEvent =>
        /\ (inert.op.st.running /\ inert.op.st.suppressSelEvents = 0)
               => (~inert.st.running <=> inert.caret # inert.op.st.expectedSig)
        /\ (inert.op.st.running /\ inert.op.st.suppressSelEvents > 0)
               => inert.st = [inert.op.st EXCEPT !.suppressSelEvents = @ - 1]
        /\ ~inert.op.st.running => inert.st = inert.op.st

\* the user moved the caret during a run and the run goes on
C25_RunSurvives ==
    /\ ExternalEvent /\ inert.op.st.running /\ inert.st.running
    /\ inert.caret # inert.op.st.expectedSig
    /\ inert.st.suppressSelEvents = suppressSelectionEvents - 1

\* the last centre change was shorter than minMoveCharsForTrail characters
ShortHop ==
    /\ hist.hop >= 0
    /\ hist.hop < IDiv(Max(0, loop.minMoveChars) * Max(1, FontBox.width), QS)

\* C26: trail emission is gated per caret hop.  From a centre change whose
\* displacement is less than minMoveCharsForTrail x character width on, no
\* tick pushes a trail sample until the next centre change, also while the
\* corners are still moving; after any other centre change emission is
\* allowed, and with minMoveCharsForTrail = 0 that is every centre change.
C26_HopGate ==
    hist.hop >= 0 =>
        /\ ShortHop => (~frame.push.some /\ ~loop.trailAllowedForCurrentMove)
        /\ ~ShortHop => loop.trailAllowedForCurrentMove
        /\ loop.minMoveChars = 0 => loop.trailAllowedForCurrentMove
        /\ frame.push.some <=> (frame.path = "drawn" /\ frame.moving
                                /\ loop.trailAllowedForCurrentMove)

\* two ticks after a hop of typing size: the corners are still moving and
\* nothing is pushed
C26_Witness ==
    /\ ShortHop /\ hist.still >= 1 /\ frame.moving /\ ~frame.push.some
    /\ loop.minMoveChars = minMoveCharsForTrail

\* the same hop with minMoveCharsForTrail = 0: a sample is pushed
C26_WitnessZero ==
    /\ loop.minMoveChars = 0 /\ hist.hop >= 0 /\ hist.hop < 14 * PX
    /\ frame.moving /\ frame.push.some

\* C27: in every state of the inertia controller the interval timer is set
\* if and only if a run is in progress, and at most one interval set by the
\* controller has not been cleared, across impulses, ticks, stop, tuning
\* changes during a run, activate and deactivate.
C27_TimerIffRunning ==
    /\ inert.st.timer <=> inert.st.running
    /\ inert.liveTimers = (IF inert.st.timer THEN 1 ELSE 0)
    /\ inert.liveTimers <= 1

\* a run whose tick interval was changed by a tuning change: the timer has
\* been set a second time and one interval is live
C27_Witness ==
    /\ inert.op.name = "tuning" /\ inert.op.st.running /\ inert.st.running
    /\ inert.timersSet = inert.op.timersSet + 1
    /\ inert.timerMs = inert.cfg.tickMs /\ inert.timerMs = TICK_MS_MAX
    /\ inert.liveTimers = 1

\* a controller made by activate() after a deactivate() that ended a run
C27_WitnessReactivated ==
    /\ inert.op.name = "activate" /\ inert.gen > 0 /\ inert.timersSet > 0
    /\ ~inert.st.running /\ inert.liveTimers = 0

\* the continuation of a suspended tick has just run
TickContinued == inert.op.name = "settled" /\ inert.op.inflight[1].kind = "tick"

\* C28: a controller that is not running is fully reset (no direction,
\* velocity 0, no expected signature, no timer), also after the continuation
\* of a tick that was suspended when stop() was called; and the continuation
\* of a tick started in an earlier run changes neither the velocity nor the
\* expected signature of the run in progress.
C28_StopStaysReset ==
    /\ ~inert.st.running
           => /\ inert.st.dir = "none" /\ inert.st.velocity = 0
              /\ inert.st.expectedSig = NoSig /\ ~inert.st.timer
    /\ (TickContinued /\ inert.op.inflight[1].run # inert.runs)
           => /\ inert.st.velocity = inert.op.st.velocity
              /\ inert.st.expectedSig = inert.op.st.expectedSig

\* the continuation of a tick of an earlier run has decayed the velocity of
\* the run in progress
C28_StaleDecay ==
    /\ TickContinued /\ inert.op.inflight[1].run # inert.runs
    /\ inert.op.inflight[1].gen = inert.gen
    /\ inert.st.running /\ inert.st.velocity < inert.op.st.velocity

\* the number of cursor moves issued by ticks and not yet resolved
TickMovesInFlight ==
    Cardinality({ i \in 1..Len(inert.inflight) : inert.inflight[i].kind = "tick" })

\* C29: at most one cursor move issued by the controller is in flight at any
\* time: no tick issues a move while the move of the tick before is awaited.
C29_OneMoveInFlight == TickMovesInFlight <= 1

\* a tick of the interval has issued a move while the move of the same
\* run's tick before it is still awaited
C29_Overlap ==
    /\ inert.op.name = "tick" /\ TickMovesInFlight = 2
    /\ inert.inflight[1].run = inert.inflight[2].run
    /\ inert.inflight[1].gen = inert.inflight[2].gen

\* C30: in every state lastPushed is null or the newest sample of the trail
\* buffer, so a push never canonicalizes against or interpolates from a
\* sample that pruneTrail or the cap has removed.
C30_LastPushedInTrail ==
    \/ lastPushed = NullSample
    \/ (trail # <<>> /\ trail[Len(trail)] = lastPushed)

\* a push has interpolated from a reference sample that pruneTrail had
\* removed from the buffer
C30_StaleReference ==
    /\ op.kind = "push" /\ op.lastBefore # NullSample
    /\ \A i \in 1..Len(op.trailBefore) : op.trailBefore[i] # op.lastBefore
    /\ Len(op.entries) > 0

=========================================================================
